---- MODULE Spec2Model ----
(***************************************************************************)
(* Model of the MPU9250 DMP driver (src/mpu9250.c): bring-up, the          *)
(* interrupt-driven sampler thread, the FIFO packet decoder and the        *)
(* complementary-filter fusion engine.                                     *)
(*                                                                         *)
(* Conventions                                                             *)
(*  - `long` is 32 bits wide (the driver targets the 32-bit ARM            *)
(*    BeagleBone; the comment at src/mpu9250.c:1453 "avoid long long       *)
(*    math" relies on it).  32-bit results wrap.                           *)
(*  - float quantities are kept in fixed point: the unit of each is        *)
(*    stated where it is defined.                                          *)
(*  - every bus/GPIO transfer an operation performs is appended to the     *)
(*    trace of the `call` record, which describes the most recent step.    *)
(***************************************************************************)
EXTENDS Integers, Sequences, FiniteSets, TLC

(***************************************************************************)
(* Program constants                                                       *)
(***************************************************************************)
FIFO_LEN_NO_MAG == 28
FIFO_LEN_MAG == 35
QUAT_ERROR_THRESH == 16777216
QUAT_MAG_SQ_NORMALIZED == 268435456
QUAT_MAG_SQ_MIN == QUAT_MAG_SQ_NORMALIZED - QUAT_ERROR_THRESH
QUAT_MAG_SQ_MAX == QUAT_MAG_SQ_NORMALIZED + QUAT_ERROR_THRESH
DMP_MAX_RATE == 200
DMP_MIN_RATE == 4
DMP_SAMPLE_RATE == 200
MPU6500_BANK_SIZE == 256
DMP_LOAD_CHUNK == 16
MAGNETOMETER_SATURATION == 8
WHO_AM_I_EXPECTED == 113
YAW_MIX_FACTOR == 50
PI == 8
TWO_PI == 2 * PI

ORIENTATION_Z_UP == 136
ORIENTATION_Z_DOWN == 396
ORIENTATION_X_UP == 14
ORIENTATION_X_DOWN == 266
ORIENTATION_Y_UP == 112
ORIENTATION_Y_DOWN == 336

(***************************************************************************)
(* Bounds of the model                                                     *)
(***************************************************************************)
MaxThreads == 2
MaxEdges == 2
\* size of the firmware image the model uploads
DMP_CODE_SIZE == 40

(***************************************************************************)
(* Integer helpers with the widths of the C types                          *)
(***************************************************************************)
Two30 == 1073741824

\* wrapping addition of two 32-bit signed values (gcc -fwrapv behaviour of
\* the target build); only the cases that occur for operands of equal sign
WrapAdd32(a, b) ==
    IF a >= 0 /\ b >= 0 /\ a > ((Two30 - 1) + Two30) - b
       THEN ((a - Two30) - Two30) + b
    ELSE IF a < 0 /\ b < 0 /\ a < ((0 - Two30) - Two30) - b
       THEN ((a + Two30) + Two30) + b
    ELSE a + b

\* x >> 16 on a signed long: the arithmetic shift of gcc (floor division)
Asr16(x) == x \div 65536

\* (int16_t)((hi << 8) | lo)
S16(hi, lo) == LET u == hi * 256 + lo IN IF u >= 32768 THEN u - 65536 ELSE u

\* ((long)b0 << 24) | ((long)b1 << 16) | ((long)b2 << 8) | b3 in a 32-bit long
S32(b0, b1, b2, b3) ==
    (IF b0 >= 128 THEN b0 - 256 ELSE b0) * 16777216 + b1 * 65536 + b2 * 256 + b3

\* truncating division of C for signed operands (divisor > 0)
CDiv(a, b) == IF a >= 0 THEN a \div b ELSE 0 - ((0 - a) \div b)

\* largest r in lo..hi with r*r <= n (lo*lo <= n is required)
RECURSIVE ISqrtB(_, _, _)
ISqrtB(n, lo, hi) ==
    IF lo >= hi THEN lo
    ELSE LET mid == (lo + hi + 1) \div 2
         IN IF mid * mid <= n THEN ISqrtB(n, mid, hi) ELSE ISqrtB(n, lo, mid - 1)

Bit(byte, mask) == (byte \div mask) % 2 = 1

(***************************************************************************)
(* The text of the calibration files.  A line is a sequence of characters; *)
(* a float is kept as the number of its millionths, and a float handed to  *)
(* fprintf as a fraction num / den with den > 0.                           *)
(***************************************************************************)
FLOAT_ONE == 1000000

DigitChars == <<"0", "1", "2", "3", "4", "5", "6", "7", "8", "9">>

\* the decimal digits of n >= 0
RECURSIVE Digits(_)
Digits(n) ==
    IF n < 10 THEN <<DigitChars[n + 1]>>
    ELSE Append(Digits(n \div 10), DigitChars[(n % 10) + 1])

\* the last w decimal digits of n >= 0, with leading zeros
RECURSIVE DigitsW(_, _)
DigitsW(n, w) ==
    IF w = 0 THEN <<>> ELSE Append(DigitsW(n \div 10, w - 1), DigitChars[(n % 10) + 1])

DigitValue(c) == CHOOSE d \in 0..9 : DigitChars[d + 1] = c

\* the number a sequence of digits denotes
RECURSIVE DigitsValue(_)
DigitsValue(t) ==
    IF t = <<>> THEN 0
    ELSE 10 * DigitsValue(SubSeq(t, 1, Len(t) - 1)) + DigitValue(t[Len(t)])

\* printf("%d")
FormatD(n) == IF n < 0 THEN <<"-">> \o Digits(0 - n) ELSE Digits(n)

\* scanf("%d") of a line FormatD wrote
ScanD(t) == IF t[1] = "-" THEN 0 - DigitsValue(Tail(t)) ELSE DigitsValue(t)

\* the millionths nearest to |num / den|
RoundMicro(num, den) ==
    LET a == IF num < 0 THEN 0 - num ELSE num
    IN (2 * a * FLOAT_ONE + den) \div (2 * den)

\* printf("%f"): sign, whole part, point, six decimals
FormatF(x) ==
    (IF x.num < 0 THEN <<"-">> ELSE <<>>)
    \o Digits(RoundMicro(x.num, x.den) \div FLOAT_ONE)
    \o <<".">>
    \o DigitsW(RoundMicro(x.num, x.den) % FLOAT_ONE, 6)

\* the position of the decimal point in a line
PointAt(t) == CHOOSE j \in 1..Len(t) : t[j] = "."

\* scanf("%f") of a line FormatF wrote, in millionths
ScanF(t) ==
    LET u == IF t[1] = "-" THEN Tail(t) ELSE t
        m == DigitsValue(SubSeq(u, 1, PointAt(u) - 1)) * FLOAT_ONE
             + DigitsValue(SubSeq(u, PointAt(u) + 1, Len(u)))
    IN IF t[1] = "-" THEN 0 - m ELSE m

\* the three lines fprintf(cal, "%d\n%d\n%d\n", ...) writes
GyroFileText(offsets) == <<FormatD(offsets[1]), FormatD(offsets[2]), FormatD(offsets[3])>>

\* fscanf(cal, "%d\n%d\n%d\n", &x, &y, &z)
ScanGyroFile(text) == <<ScanD(text[1]), ScanD(text[2]), ScanD(text[3])>>

\* the six values written with the scales first
MagFileTextScalesFirst(offsets, scale) ==
    <<FormatF(scale[1]), FormatF(scale[2]), FormatF(scale[3]),
      FormatF(offsets[1]), FormatF(offsets[2]), FormatF(offsets[3])>>

\* the six lines fprintf(cal, "%f\n%f\n%f\n%f\n%f\n%f\n", ...) writes
MagFileText(offsets, scale) ==
    <<FormatF(offsets[1]), FormatF(offsets[2]), FormatF(offsets[3]),
      FormatF(scale[1]), FormatF(scale[2]), FormatF(scale[3])>>

\* fscanf(cal, "%f\n%f\n%f\n%f\n%f\n%f\n", &x, &y, &z, &sx, &sy, &sz)
ScanMagFile(text) ==
    [offsets |-> <<ScanF(text[1]), ScanF(text[2]), ScanF(text[3])>>,
     scales |-> <<ScanF(text[4]), ScanF(text[5]), ScanF(text[6])>>]

(***************************************************************************)
(* Bus / GPIO events                                                       *)
(***************************************************************************)
Ev(k, r, f, n) == [k |-> k, r |-> r, f |-> f, n |-> n, v |-> <<>>]
EvV(k, r, v) == [k |-> k, r |-> r, f |-> {}, n |-> 0, v |-> v]

CountEv(tr, k, r) == Cardinality({j \in 1..Len(tr) : tr[j].k = k /\ tr[j].r = r})

IsBusEv(e) == e.k \in {"rd", "wr"}
IsHwEv(e) == e.k \in {"rd", "wr", "gpio", "i2c_init"}

BusN(tr) == Cardinality({j \in 1..Len(tr) : IsBusEv(tr[j])})

(***************************************************************************)
(* Device registers the model keeps: each holds a set of flag names and a  *)
(* number                                                                  *)
(***************************************************************************)
RegNames == {"INT_ENABLE", "FIFO_EN", "USER_CTRL", "INT_PIN_CFG", "SMPLRT_DIV",
             "PWR_MGMT_1", "I2C_MST_CTRL", "I2C_SLV0_ADDR", "I2C_SLV0_REG",
             "I2C_SLV0_CTRL", "AK8963_CNTL", "XG_OFFSET_H", "PRGM_START_H",
             "BANK_SEL", "MEM_R_W", "GYRO_CONFIG", "ACCEL_CONFIG",
             "ACCEL_CONFIG_2", "CONFIG", "PWR_MGMT_2",
             "BMP280_RESET_REG", "BMP280_CTRL_MEAS", "BMP280_CONFIG"}

RegVal(f, n) == [f |-> f, n |-> n, v |-> <<>>]
RegValV(v) == [f |-> {}, n |-> 0, v |-> v]

VARIABLES
    store,                      \* the calibration files the calibration routines write
    config,                     \* imu_config_t config (driver's copy)
    dmp_en,                     \* int dmp_en
    bypass_en,                  \* int bypass_en
    packet_len,                 \* int packet_len
    data_ptr,                   \* imu_data_t* data_ptr: 1 when it points at the caller's sample
    interrupt_running,          \* int interrupt_running
    imu_interrupt_func,         \* the registered callback
    imu_interrupt_thread,       \* pthread_t of the most recently created sampler (0: none)
    shutdown_interrupt_thread,  \* shutdown flag of the sampler
    last_read_successful,       \* result of the most recent decode attempt
    fifo_first_run,             \* static first_run of read_dmp_fifo
    fusion,                     \* statics of data_fusion: lastDMPYaw, lastYaw, first_run
    mag_factory_adjust,         \* factory sensitivity adjustment (x256)
    mag_offsets,                \* hard-iron offsets, in millionths
    mag_scales,                 \* soft-iron scales, in millionths
    data,                       \* the caller's imu_data_t
    in_use,                     \* advisory in-use flag of the IMU bus
    regs,                       \* device registers
    state,                      \* program lifecycle state (get_state())
    thr,                        \* sampler threads
    caller,                     \* position of the application thread
    call                        \* the most recent step: operation, result, trace

vars == <<store, config, dmp_en, bypass_en, packet_len, data_ptr, interrupt_running,
          imu_interrupt_func, imu_interrupt_thread, shutdown_interrupt_thread,
          last_read_successful, fifo_first_run, fusion, mag_factory_adjust,
          mag_offsets, mag_scales, data, in_use, regs, state, thr, caller, call>>

\* A bus thread: the registers, the trace of this call, the ordinals (within
\* the call) of the transfers that fail, whether the last transfer succeeded,
\* the return value of the last function, and the driver globals that the
\* configuration functions read and write.
Bus(tr0, fails) ==
    [regs |-> regs, tr |-> tr0, fails |-> fails, ok |-> TRUE, ret |-> 0,
     dmp_en |-> dmp_en, bypass_en |-> bypass_en, packet_len |-> packet_len,
     config |-> config, mag_factory_adjust |-> mag_factory_adjust]

Ret(s, v) == [s EXCEPT !.ret = v]

\* i2c_write_byte / i2c_write_bytes: 0 on success, the register is written
Wr(s, r, f, n) ==
    LET ok == (BusN(s.tr) + 1) \notin s.fails
    IN [s EXCEPT !.tr = Append(@, Ev("wr", r, f, n)),
                 !.regs = IF ok THEN [@ EXCEPT ![r] = RegVal(f, n)] ELSE @,
                 !.ok = ok]

\* i2c_write_bytes of a block of numbers
WrV(s, r, v) ==
    LET ok == (BusN(s.tr) + 1) \notin s.fails
    IN [s EXCEPT !.tr = Append(@, EvV("wr", r, v)),
                 !.regs = IF ok THEN [@ EXCEPT ![r] = RegValV(v)] ELSE @,
                 !.ok = ok]

\* i2c_read_byte / i2c_read_word / i2c_read_bytes: the value comes from the device
Rd(s, r) ==
    LET ok == (BusN(s.tr) + 1) \notin s.fails
    IN [s EXCEPT !.tr = Append(@, Ev("rd", r, {}, 0)), !.ok = ok]

\* i2c_read_byte whose value n the caller goes on to test
RdN(s, r, n) ==
    LET ok == (BusN(s.tr) + 1) \notin s.fails
    IN [s EXCEPT !.tr = Append(@, Ev("rd", r, {}, n)), !.ok = ok]

\* a marker for a function invocation or a non-bus event
Mark(s, k, r) == [s EXCEPT !.tr = Append(@, Ev(k, r, {}, 0))]

(***************************************************************************)
(* mpu_reset_fifo                                                          *)
(***************************************************************************)
mpu_reset_fifo(s) ==
    LET mag == s.config.enable_magnetometer # 0
        s0 == Mark(s, "fn", "mpu_reset_fifo")
        s1 == Wr(s0, "INT_ENABLE", {}, 0)
        s2 == Wr(s1, "FIFO_EN", {}, 0)
        s3 == Wr(s2, "USER_CTRL", {"BIT_FIFO_RST", "BIT_DMP_RST"}, 0)
        s4 == Wr(s3, "USER_CTRL",
                 {"BIT_DMP_EN", "BIT_FIFO_EN"} \cup (IF mag THEN {"I2C_MST_EN"} ELSE {}), 0)
        s5 == IF s.dmp_en # 0 THEN Wr(s4, "INT_ENABLE", {"BIT_DMP_INT_EN"}, 0) ELSE s4
        s6 == Wr(s5, "FIFO_EN", IF mag THEN {"FIFO_SLV0_EN"} ELSE {}, 0)
    IN IF ~s1.ok THEN Ret(s1, -1)
       ELSE IF ~s2.ok THEN Ret(s2, -1)
       ELSE IF ~s3.ok THEN Ret(s3, -1)
       ELSE IF ~s4.ok THEN Ret(s4, -1)
       ELSE IF ~s6.ok THEN Ret(s6, -1)
       ELSE Ret(s6, 0)

(***************************************************************************)
(* Sample arithmetic.  Units: accel and gyro are raw counts times the      *)
(* full-scale factor; a normalized quaternion component is in 1/1000; the  *)
(* magnetometer is in 1/256 of an adjusted count; angles are in PI/8.      *)
(***************************************************************************)
Orientations == {ORIENTATION_Z_UP, ORIENTATION_Z_DOWN, ORIENTATION_X_UP,
                 ORIENTATION_X_DOWN, ORIENTATION_Y_UP, ORIENTATION_Y_DOWN}

\* raw[k] of the C buffer
B(raw, k) == raw[k + 1]

SumSq(q) == q[1] * q[1] + q[2] * q[2] + q[3] * q[3] + q[4] * q[4]

\* quat_mag_sq as the code computes it in a 32-bit long
QuatMagSq(q14) ==
    WrapAdd32(WrapAdd32(WrapAdd32(q14[1] * q14[1], q14[2] * q14[2]),
                        q14[3] * q14[3]), q14[4] * q14[4])

\* the four big-endian 32-bit components at offset i
ParseQuat(raw, i) ==
    [k \in 1..4 |-> S32(B(raw, i + 4 * (k - 1)), B(raw, i + 4 * (k - 1) + 1),
                        B(raw, i + 4 * (k - 1) + 2), B(raw, i + 4 * (k - 1) + 3))]

QuatQ14(quat) == [k \in 1..4 |-> Asr16(quat[k])]

\* quat_mag_sq in a build whose long holds the sum (LP64): the exact value,
\* kept here up to 2^31 - 1, above which it compares as any larger value does
SatAdd32(a, b) == IF a > ((Two30 - 1) + Two30) - b THEN (Two30 - 1) + Two30 ELSE a + b

QuatMagSqWide(q14) ==
    SatAdd32(SatAdd32(SatAdd32(q14[1] * q14[1], q14[2] * q14[2]),
                      q14[3] * q14[3]), q14[4] * q14[4])

\* the acceptance test.  The sum overflows a 32-bit long for some packets,
\* which is undefined: wide chooses between the two values a build yields.
QuatAcceptedStrict(quat, wide) ==
    LET m == IF wide THEN QuatMagSqWide(QuatQ14(quat)) ELSE QuatMagSq(QuatQ14(quat))
    IN ~(m <= QUAT_MAG_SQ_MIN \/ m >= QUAT_MAG_SQ_MAX)
QuatAccepted(quat, wide) ==
    LET m == IF wide THEN QuatMagSqWide(QuatQ14(quat)) ELSE QuatMagSq(QuatQ14(quat))
    IN ~(m < QUAT_MAG_SQ_MIN \/ m > QUAT_MAG_SQ_MAX)

\* normalizeQuaternion on the float copy of quat, in 1/1000 (the 16 high bits
\* of each component carry the precision the model keeps)
normalizeQuaternion(quat) ==
    LET q14 == QuatQ14(quat)
        n == ISqrtB(SumSq(q14), 0, 16889)
    IN [k \in 1..4 |-> CDiv(q14[k] * 1000, n)]

\* quaternionToTaitBryan: <<pitch, roll, yaw>>.  A quaternion without vector
\* part is the identity rotation; for any other the angles are the
\* trigonometric result eul, a value the environment supplies.
quaternionToTaitBryan(nq, eul) ==
    IF nq[2] = 0 /\ nq[3] = 0 /\ nq[4] = 0 THEN <<0, 0, 0>> ELSE eul

\* TaitBryanToQuaternion: the quaternion is kept by the angles that define it
TaitBryanToQuaternion(tb) == [tb |-> tb]

\* the body-frame magnetic vector for a mounting orientation; <<>> for a
\* selector that is none of the six
MagQuat(orientation, mag) ==
    CASE orientation = ORIENTATION_Z_UP   -> <<0, mag[1], mag[2], mag[3]>>
      [] orientation = ORIENTATION_Z_DOWN -> <<0, 0 - mag[1], mag[2], 0 - mag[3]>>
      [] orientation = ORIENTATION_X_UP   -> <<0, mag[3], mag[2], mag[1]>>
      [] orientation = ORIENTATION_X_DOWN -> <<0, 0 - mag[3], mag[2], 0 - mag[1]>>
      [] orientation = ORIENTATION_Y_UP   -> <<0, mag[1], 0 - mag[3], mag[2]>>
      [] orientation = ORIENTATION_Y_DOWN -> <<0, mag[1], mag[3], 0 - mag[2]>>
      [] OTHER -> <<>>

(***************************************************************************)
(* data_fusion.  in.nan: atan2f returned NaN; in.magyaw: -atan2f(y, x) of  *)
(* the tilt-compensated vector otherwise.                                  *)
(***************************************************************************)
\* a wrap that brings back only the yaws above the circle
Wrap2PiDownOnly(y) == IF y > TWO_PI THEN y - TWO_PI ELSE y

Wrap2Pi(y) == IF y > TWO_PI THEN y - TWO_PI ELSE IF y < 0 THEN y + TWO_PI ELSE y

data_fusion(d, cfg, fus, in) ==
    LET tb == d.dmp_TaitBryan
        deltaDMPYaw == fus.lastDMPYaw - tb[3]
        fus1 == [fus EXCEPT !.lastDMPYaw = tb[3]]
    IN IF MagQuat(cfg.orientation, d.mag) = <<>>
          THEN [ret |-> -1, data |-> d, fusion |-> fus1]
       ELSE IF in.nan
          THEN [ret |-> -1, data |-> d, fusion |-> fus1]
       ELSE
          LET newMagYaw == IF in.magyaw < 0 THEN TWO_PI + in.magyaw ELSE in.magyaw
              lastYaw == IF fus1.first_run = 1 THEN newMagYaw ELSE fus1.lastYaw
              gyroYaw == Wrap2Pi(lastYaw + deltaDMPYaw)
              d0 == newMagYaw - gyroYaw
              deltaMagYaw == IF d0 >= PI THEN d0 - TWO_PI
                             ELSE IF d0 < 0 - PI THEN d0 + TWO_PI ELSE d0
              newYaw == Wrap2Pi(gyroYaw + CDiv(deltaMagYaw * 100,
                                               YAW_MIX_FACTOR * cfg.dmp_sample_rate))
              yawOut == IF newYaw > PI THEN newYaw - TWO_PI ELSE newYaw
              ftb == <<tb[1], tb[2], yawOut>>
          IN [ret |-> 0,
              data |-> [d EXCEPT !.compass_heading = in.magyaw,
                                 !.fused_TaitBryan = ftb,
                                 !.fused_quat = TaitBryanToQuaternion(ftb)],
              fusion |-> [lastDMPYaw |-> tb[3], lastYaw |-> newYaw, first_run |-> 0]]

(***************************************************************************)
(* read_dmp_fifo.  Inputs of one invocation:                               *)
(*   in.fails   ordinals of the bus transfers that return an error         *)
(*   in.short   ordinals of the FIFO data reads that return too few bytes  *)
(*   in.count1, in.count2   the FIFO byte count at the first / second read *)
(*   in.pk1, in.pk2   the older and the newest packet in the FIFO          *)
(*   in.eul, in.nan, in.magyaw   the trigonometric results                 *)
(***************************************************************************)
\* (f - offset) * scale, on the whole parts of offset and scale; the decoder
\* meets no others, the calibration in memory being 0, or 1.0 for a scale
MagCorrected(f, offset, scale) == (f - offset \div FLOAT_ONE) * (scale \div FLOAT_ONE)

\* the overflow flag of the status byte that ends the magnetometer block
MagSaturatedNever(raw, i) == FALSE
MagSaturated(raw, i) == Bit(B(raw, i + 6), MAGNETOMETER_SATURATION)

\* the magnetometer block at offset i of the buffer
DecodeMag(d, scl, raw, i) ==
    IF MagSaturated(raw, i)
       THEN [data |-> d, mag_scales |-> scl, is_new_mag_data |-> 0]
    ELSE
       LET mag_adc == <<S16(B(raw, i + 1), B(raw, i + 0)),
                        S16(B(raw, i + 3), B(raw, i + 2)),
                        S16(B(raw, i + 5), B(raw, i + 4))>>
       IN IF ~(mag_adc[1] # 0 \/ mag_adc[2] # 0 \/ mag_adc[3] # 0)
             THEN [data |-> d, mag_scales |-> scl, is_new_mag_data |-> 0]
          ELSE
             LET factory_cal_data == <<mag_adc[2] * mag_factory_adjust[2],
                                       mag_adc[1] * mag_factory_adjust[1],
                                       0 - mag_adc[3] * mag_factory_adjust[3]>>
                 scl1 == [k \in 1..3 |-> IF scl[k] = 0 THEN FLOAT_ONE ELSE scl[k]]
             IN [data |-> [d EXCEPT !.mag =
                              [k \in 1..3 |-> MagCorrected(factory_cal_data[k],
                                                           mag_offsets[k], scl1[k])]],
                 mag_scales |-> scl1,
                 is_new_mag_data |-> 1]

\* the three big-endian 16-bit values at offset i
Parse3(raw, i) ==
    <<S16(B(raw, i + 0), B(raw, i + 1)), S16(B(raw, i + 2), B(raw, i + 3)),
      S16(B(raw, i + 4), B(raw, i + 5))>>

\* data_fusion runs at the end of the decode when new magnetometer data came
FusionDueAlways(is_new_mag_data) == TRUE
FusionDue(is_new_mag_data) == is_new_mag_data # 0

\* the part of read_dmp_fifo after the buffer has been read: i is the offset
\* of the packet to decode
DecodePacket(d, scl, fus, raw, i, in) ==
    LET m == IF packet_len = FIFO_LEN_MAG
                THEN DecodeMag(d, scl, raw, i)
                ELSE [data |-> d, mag_scales |-> scl, is_new_mag_data |-> 0]
        i1 == IF packet_len = FIFO_LEN_MAG THEN i + 7 ELSE i
        quat == ParseQuat(raw, i1)
    IN IF ~QuatAccepted(quat, in.wide)
          THEN [ret |-> -1, data |-> m.data, mag_scales |-> m.mag_scales,
                fusion |-> fus, fifo_first_run |-> fifo_first_run, fused |-> FALSE]
       ELSE
          LET nq == normalizeQuaternion(quat)
              i2 == i1 + 16
              ra == Parse3(raw, i2)
              i3 == i2 + 6
              rg == Parse3(raw, i3)
              d1 == [m.data EXCEPT
                        !.dmp_quat = nq,
                        !.dmp_TaitBryan = quaternionToTaitBryan(nq, in.eul),
                        !.raw_accel = ra,
                        !.accel = [k \in 1..3 |-> ra[k] * m.data.accel_to_ms2],
                        !.raw_gyro = rg,
                        !.gyro = [k \in 1..3 |-> rg[k] * m.data.gyro_to_degs]]
              f == IF FusionDue(m.is_new_mag_data)
                      THEN data_fusion(d1, config, fus, in)
                      ELSE [ret |-> 0, data |-> d1, fusion |-> fus]
          IN [ret |-> 0, data |-> f.data, mag_scales |-> m.mag_scales,
              fusion |-> f.fusion, fifo_first_run |-> 0,
              fused |-> FusionDue(m.is_new_mag_data)]

\* the buffer a FIFO read of n bytes delivers: oldest packet first
FifoBytes(n, in) == IF n = 2 * packet_len THEN in.pk1 \o in.pk2 ELSE in.pk2

\* more than two packets in the FIFO
FifoOverfullAboveThree(fifo_count) == fifo_count > 3 * packet_len
FifoOverfull(fifo_count) == fifo_count > 2 * packet_len

\* one or two complete packets are not available: wait and read the count again
NeedsRetryNever(fifo_count) == FALSE
NeedsRetry(fifo_count) == fifo_count # packet_len /\ fifo_count < 2 * packet_len

\* the offset i of the packet to decode
PacketOffsetZero(fifo_count) == 0
PacketOffset(fifo_count) == IF fifo_count = 2 * packet_len THEN packet_len ELSE 0

\* the two tests that precede every bus access of read_dmp_fifo
DecoderReadyIfEnabled(en, plen) == en # 0
DecoderReady(en, plen) ==
    IF en = 0 THEN FALSE
    ELSE ~(plen # FIFO_LEN_NO_MAG /\ plen # FIFO_LEN_MAG)

\* the count is still no whole number of packets at the re-read: the FIFO is
\* reset along with the warning
ResetOnMisalignedAfterFirst(show_warnings, first_run) == first_run # 1
ResetOnMisaligned(show_warnings, first_run) == show_warnings # 0 /\ first_run # 1

read_dmp_fifo(in) ==
    LET z == Bus(<<>>, in.fails)
        Bad(s) == [ret |-> -1, s |-> s, data |-> data, mag_scales |-> mag_scales,
                   fusion |-> fusion, fifo_first_run |-> fifo_first_run,
                   i |-> 0, raw |-> <<>>]
    IN IF ~DecoderReady(dmp_en, packet_len) THEN Bad(z)
       ELSE
       LET s1 == Rd(z, "FIFO_COUNTH")
       IN IF ~s1.ok THEN Bad(s1)
          ELSE IF FifoOverfull(in.count1) THEN Bad(mpu_reset_fifo(s1))
          ELSE
          LET retry == NeedsRetry(in.count1)
              s2 == IF retry THEN Rd(Mark(s1, "usleep", "2500"), "FIFO_COUNTH") ELSE s1
              fifo_count == IF retry THEN in.count2 ELSE in.count1
          IN IF retry /\ ~s2.ok THEN Bad(s2)
             ELSE IF retry /\ fifo_count # packet_len /\ fifo_count # 2 * packet_len
                THEN Bad(IF ResetOnMisaligned(config.show_warnings, fifo_first_run)
                            THEN mpu_reset_fifo(s2) ELSE s2)
             ELSE IF ~(fifo_count = 2 * packet_len \/ fifo_count = FIFO_LEN_NO_MAG
                       \/ packet_len = FIFO_LEN_MAG)
                THEN Bad(s2)
             ELSE
             LET i == PacketOffset(fifo_count)
                 o1 == BusN(s2.tr) + 1
                 s3 == Rd(s2, "FIFO_R_W")
                 again == ~s3.ok
                 s4 == IF again THEN Rd(s3, "FIFO_R_W") ELSE s3
                 o == IF again THEN o1 + 1 ELSE o1
                 complete == s4.ok /\ o \notin in.short
             IN IF ~complete THEN Bad(s4)
                ELSE
                LET raw == FifoBytes(fifo_count, in)
                    r == DecodePacket(data, mag_scales, fusion, raw, i, in)
                IN [ret |-> r.ret,
                    s |-> IF r.fused THEN Mark(s4, "fn", "data_fusion") ELSE s4,
                    data |-> r.data,
                    mag_scales |-> r.mag_scales, fusion |-> r.fusion,
                    fifo_first_run |-> r.fifo_first_run, i |-> i, raw |-> raw]

(***************************************************************************)
(* Configuration functions of the bring-up.  Each takes the bus thread s   *)
(* and returns it with ret set.                                            *)
(***************************************************************************)
\* addresses of the DMP configuration keys (bank << 8 | offset)
KeyAddr(key) ==
    CASE key = "D_0_104" -> 104
      [] key = "D_0_22" -> 534
      [] key = "FCFG_1" -> 1062
      [] key = "FCFG_2" -> 1066
      [] key = "FCFG_7" -> 1073
      [] key = "FCFG_3" -> 1088
      [] key = "CFG_MOTION_BIAS" -> 1208
      [] key = "CFG_ANDROID_ORIENT_INT" -> 1853
      [] key = "CFG_20" -> 2224
      [] key = "CFG_FIFO_ON_EVENT" -> 2690
      [] key = "CFG_LP_QUAT" -> 2712
      [] key = "CFG_8" -> 2718
      [] key = "CFG_GYRO_RAW_DATA" -> 2722
      [] key = "CFG_15" -> 2727
      [] key = "CFG_27" -> 2742
      [] key = "CFG_6" -> 2753

\* the test against the bank boundary, on the low byte of the address
CrossesBankInclusive(mem_addr, length) ==
    (mem_addr % 256) + length >= MPU6500_BANK_SIZE

CrossesBank(mem_addr, length) ==
    (mem_addr % 256) + length > MPU6500_BANK_SIZE

mpu_write_mem(s, mem_addr, length, v) ==
    IF CrossesBank(mem_addr, length)
       THEN Ret(Mark(s, "range", "mpu_write_mem"), -1)
    ELSE
       LET s1 == WrV(s, "BANK_SEL", <<mem_addr \div 256, mem_addr % 256>>)
           s2 == WrV(s1, "MEM_R_W", v)
       IN IF ~s1.ok THEN Ret(s1, -1)
          ELSE IF ~s2.ok THEN Ret(s2, -1)
          ELSE Ret(s2, 0)

mpu_read_mem(s, mem_addr, length) ==
    IF CrossesBank(mem_addr, length)
       THEN Ret(Mark(s, "range", "mpu_read_mem"), -1)
    ELSE
       LET s1 == WrV(s, "BANK_SEL", <<mem_addr \div 256, mem_addr % 256>>)
           s2 == Rd(s1, "MEM_R_W")
       IN IF ~s1.ok THEN Ret(s1, -1)
          ELSE IF ~s2.ok THEN Ret(s2, -1)
          ELSE Ret(s2, 0)

Min(a, b) == IF a < b THEN a ELSE b

\* the upload loop from offset ii; corrupt is the set of chunk offsets whose
\* read-back differs from the image
RECURSIVE FirmwareLoopNoVerify(_, _, _)
FirmwareLoopNoVerify(s, ii, corrupt) ==
    IF ~(ii < DMP_CODE_SIZE) THEN Ret(s, 0)
    ELSE
       LET this_write == Min(DMP_LOAD_CHUNK, DMP_CODE_SIZE - ii)
           s1 == mpu_write_mem(s, ii, this_write, <<ii, this_write>>)
           s2 == mpu_read_mem(s1, ii, this_write)
       IN IF s1.ret # 0 THEN Ret(s1, -1)
          ELSE IF s2.ret # 0 THEN Ret(s2, -1)
          ELSE FirmwareLoopNoVerify(s2, ii + this_write, corrupt)

RECURSIVE FirmwareLoop(_, _, _)
FirmwareLoop(s, ii, corrupt) ==
    IF ~(ii < DMP_CODE_SIZE) THEN Ret(s, 0)
    ELSE
       LET this_write == Min(DMP_LOAD_CHUNK, DMP_CODE_SIZE - ii)
           s1 == mpu_write_mem(s, ii, this_write, <<ii, this_write>>)
           s2 == mpu_read_mem(s1, ii, this_write)
       IN IF s1.ret # 0 THEN Ret(s1, -1)
          ELSE IF s2.ret # 0 THEN Ret(s2, -1)
          ELSE IF ii \in corrupt THEN Ret(Mark(s2, "corrupt", "dmp_firmware"), -2)
          ELSE FirmwareLoop(s2, ii + this_write, corrupt)

dmp_load_motion_driver_firmware(s, corrupt) ==
    LET s1 == FirmwareLoop(Mark(s, "fn", "dmp_load_motion_driver_firmware"), 0, corrupt)
        s2 == Wr(s1, "PRGM_START_H", {"dmp_start_addr"}, 0)
    IN IF s1.ret # 0 THEN s1
       ELSE IF ~s2.ok THEN Ret(s2, -1)
       ELSE Ret(s2, 0)

dmp_set_orientation(s, orient) ==
    LET axes == <<orient % 4, (orient \div 8) % 4, (orient \div 64) % 4>>
        sign == <<(orient \div 4) % 2, (orient \div 32) % 2, (orient \div 256) % 2>>
        s1 == mpu_write_mem(s, KeyAddr("FCFG_1"), 3, axes)
        s2 == mpu_write_mem(s1, KeyAddr("FCFG_2"), 3, axes)
        s3 == mpu_write_mem(s2, KeyAddr("FCFG_3"), 3, sign)
        s4 == mpu_write_mem(s3, KeyAddr("FCFG_7"), 3, sign)
    IN IF s1.ret # 0 THEN Ret(s1, -1)
       ELSE IF s2.ret # 0 THEN Ret(s2, -1)
       ELSE IF s3.ret # 0 THEN Ret(s3, -1)
       ELSE IF s4.ret # 0 THEN Ret(s4, -1)
       ELSE Ret(s4, 0)

mpu_set_sample_rate_dmp(s, rate) ==
    IF rate > 1000 \/ rate < 4 THEN Ret(s, -1)
    ELSE
       LET div == ((DMP_SAMPLE_RATE \div rate) - 1) % 256
           s1 == Wr(s, "SMPLRT_DIV", {}, div)
       IN IF ~s1.ok THEN Ret(s1, -1) ELSE Ret(s1, 0)
mpu_set_sample_rate(s, rate) ==
    IF rate > 1000 \/ rate < 4 THEN Ret(s, -1)
    ELSE
       LET div == ((1000 \div rate) - 1) % 256
           s1 == Wr(s, "SMPLRT_DIV", {}, div)
       IN IF ~s1.ok THEN Ret(s1, -1) ELSE Ret(s1, 0)

dmp_set_fifo_rate(s, rate) ==
    IF rate > DMP_SAMPLE_RATE THEN Ret(s, -1)
    ELSE
       LET div == ((1000 \div rate) - 1) % 65536
           s1 == Wr(s, "SMPLRT_DIV", {}, div % 256)
           s2 == mpu_write_mem(s1, KeyAddr("D_0_22"), 2, <<0, 0>>)
           s3 == mpu_write_mem(s2, KeyAddr("CFG_6"), 12, <<>>)
       IN IF ~s1.ok THEN Ret(s1, -1)
          ELSE IF s2.ret # 0 THEN Ret(s2, -1)
          ELSE IF s3.ret # 0 THEN Ret(s3, -1)
          ELSE Ret(s3, 0)

mpu_set_bypass(s, bypass_on) ==
    LET tmp1 == (IF s.dmp_en # 0 THEN {"FIFO_EN_BIT"} ELSE {})
                \cup (IF bypass_on = 0 THEN {"I2C_MST_EN"} ELSE {})
        s1 == Wr(s, "USER_CTRL", tmp1, 0)
        tmp2 == {"LATCH_INT_EN", "INT_ANYRD_CLEAR", "ACTL_ACTIVE_LOW"}
                \cup (IF bypass_on # 0 THEN {"BYPASS_EN"} ELSE {})
        s2 == Wr(s1, "INT_PIN_CFG", tmp2, 0)
    IN IF ~s1.ok THEN Ret(s1, -1)
       ELSE IF ~s2.ok THEN Ret(s2, -1)
       ELSE Ret([s2 EXCEPT !.bypass_en = IF bypass_on # 0 THEN 1 ELSE 0], 0)

\* initialize_magnetometer with the device taken out of bypass at its end
initialize_magnetometer_bypass_off(s, asa) ==
    LET s1 == mpu_set_bypass(Mark(s, "fn", "initialize_magnetometer"), 1)
        s2 == Wr(s1, "AK8963_CNTL", {"MAG_POWER_DN"}, 0)
        s3 == Wr(s2, "AK8963_CNTL", {"MAG_FUSE_ROM"}, 0)
        s4 == Rd(s3, "AK8963_ASAX")
        s5 == Wr([s4 EXCEPT !.mag_factory_adjust = [k \in 1..3 |-> asa[k] + 128]],
                 "AK8963_CNTL", {"MAG_POWER_DN"}, 0)
        s6 == Wr(s5, "AK8963_CNTL", {"MSCALE_16", "MAG_CONT_MES_2"}, 0)
    IN IF s1.ret # 0 THEN Ret(s1, -1)
       ELSE IF ~s4.ok THEN Ret(mpu_set_bypass(s4, 0), -1)
       ELSE Ret(mpu_set_bypass(s6, 0), 0)

\* asa: the three sensitivity-adjustment bytes of the fuse ROM
initialize_magnetometer(s, asa) ==
    LET s1 == mpu_set_bypass(Mark(s, "fn", "initialize_magnetometer"), 1)
        s2 == Wr(s1, "AK8963_CNTL", {"MAG_POWER_DN"}, 0)
        s3 == Wr(s2, "AK8963_CNTL", {"MAG_FUSE_ROM"}, 0)
        s4 == Rd(s3, "AK8963_ASAX")
        s5 == Wr([s4 EXCEPT !.mag_factory_adjust = [k \in 1..3 |-> asa[k] + 128]],
                 "AK8963_CNTL", {"MAG_POWER_DN"}, 0)
        s6 == Wr(s5, "AK8963_CNTL", {"MSCALE_16", "MAG_CONT_MES_2"}, 0)
    IN IF s1.ret # 0 THEN Ret(s1, -1)
       ELSE IF ~s4.ok THEN Ret(mpu_set_bypass(s4, 0), -1)
       ELSE Ret(s6, 0)

power_down_magnetometer(s) ==
    LET s1 == mpu_set_bypass(Mark(s, "fn", "power_down_magnetometer"), 1)
        s2 == Wr(s1, "AK8963_CNTL", {"MAG_POWER_DN"}, 0)
        s3 == mpu_set_bypass(s2, 0)
    IN IF s1.ret # 0 THEN Ret(s1, -1)
       ELSE IF ~s2.ok THEN Ret(s2, -1)
       ELSE IF s3.ret # 0 THEN Ret(s3, -1)
       ELSE Ret(s3, 0)

set_int_enable(s, enable) ==
    IF s.dmp_en # 0
       THEN LET s1 == Wr(s, "INT_ENABLE",
                         IF enable # 0 THEN {"BIT_DMP_INT_EN"} ELSE {}, 0)
                s2 == Wr(s1, "FIFO_EN", {}, 0)
            IN IF ~s1.ok THEN Ret(s1, -1)
               ELSE IF ~s2.ok THEN Ret(s2, -1)
               ELSE Ret(s2, 0)
       ELSE LET s1 == Wr(s, "INT_ENABLE",
                         IF enable # 0 THEN {"BIT_DATA_RDY_EN"} ELSE {}, 0)
            IN IF ~s1.ok THEN Ret(s1, -1) ELSE Ret(s1, 0)

\* mpu_set_dmp_state without the call that takes the device out of bypass
mpu_set_dmp_state_keep_bypass(s, enable) ==
    LET s1 == set_int_enable(Mark(s, "fn", "mpu_set_dmp_state"), 0)
        s3 == mpu_set_sample_rate(s1, s1.config.dmp_sample_rate)
        s4 == Wr(s3, "FIFO_EN", {}, 0)
        s5 == set_int_enable(s4, 1)
        s6 == mpu_reset_fifo(s5)
    IN IF s3.ret # 0 THEN Ret(s3, -1) ELSE Ret(s6, 0)

mpu_set_dmp_state(s, enable) ==
    IF enable # 0
       THEN LET s1 == set_int_enable(Mark(s, "fn", "mpu_set_dmp_state"), 0)
                s2 == mpu_set_bypass(s1, 0)
                s3 == mpu_set_sample_rate(s2, s2.config.dmp_sample_rate)
                s4 == Wr(s3, "FIFO_EN", {}, 0)
                s5 == set_int_enable(s4, 1)
                s6 == mpu_reset_fifo(s5)
            IN IF s3.ret # 0 THEN Ret(s3, -1) ELSE Ret(s6, 0)
       ELSE LET s1 == set_int_enable(Mark(s, "fn", "mpu_set_dmp_state"), 0)
                s2 == Wr(s1, "FIFO_EN", {}, 0)
                s3 == mpu_reset_fifo(s2)
            IN Ret(s3, 0)

dmp_set_interrupt_mode(s, mode) ==
    CASE mode = "DMP_INT_CONTINUOUS" ->
            mpu_write_mem(s, KeyAddr("CFG_FIFO_ON_EVENT"), 11, <<216>>)
      [] mode = "DMP_INT_GESTURE" ->
            mpu_write_mem(s, KeyAddr("CFG_FIFO_ON_EVENT"), 11, <<218>>)
      [] OTHER -> Ret(s, -1)

dmp_enable_gyro_cal(s, enable) ==
    mpu_write_mem(s, KeyAddr("CFG_MOTION_BIAS"), 9, <<enable>>)

dmp_enable_lp_quat(s, enable) ==
    Ret(mpu_write_mem(s, KeyAddr("CFG_LP_QUAT"), 4, <<enable>>), 0)

dmp_enable_6x_lp_quat(s, enable) ==
    Ret(mpu_write_mem(s, KeyAddr("CFG_8"), 4, <<enable>>), 0)

B01(b) == IF b THEN 1 ELSE 0

\* mask: the set of DMP_FEATURE_* names that are set
dmp_enable_feature(s, mask) ==
    LET any_gyro == mask \cap {"SEND_RAW_GYRO", "SEND_CAL_GYRO"} # {}
        s1 == mpu_write_mem(Mark(s, "fn", "dmp_enable_feature"), KeyAddr("D_0_104"), 4, <<>>)
        s2 == mpu_write_mem(s1, KeyAddr("CFG_15"), 10,
                            <<B01("SEND_RAW_ACCEL" \in mask), B01(any_gyro)>>)
        s3 == mpu_write_mem(s2, KeyAddr("CFG_27"), 1,
                            <<B01(mask \cap {"TAP", "ANDROID_ORIENT"} # {})>>)
        s4 == dmp_enable_gyro_cal(s3, B01("GYRO_CAL" \in mask))
        s5 == IF any_gyro
                 THEN mpu_write_mem(s4, KeyAddr("CFG_GYRO_RAW_DATA"), 4,
                                    <<B01("SEND_CAL_GYRO" \in mask)>>)
                 ELSE s4
        s6 == mpu_write_mem(s5, KeyAddr("CFG_20"), 1, <<216>>)
        s7 == mpu_write_mem(s6, KeyAddr("CFG_ANDROID_ORIENT_INT"), 1, <<216>>)
        s8 == dmp_enable_lp_quat(s7, B01("LP_QUAT" \in mask))
        s9 == dmp_enable_6x_lp_quat(s8, B01("6X_LP_QUAT" \in mask))
        s10 == mpu_reset_fifo(s9)
        len == (IF "SEND_RAW_ACCEL" \in mask THEN 6 ELSE 0)
               + (IF any_gyro THEN 6 ELSE 0)
               + (IF mask \cap {"LP_QUAT", "6X_LP_QUAT"} # {} THEN 16 ELSE 0)
    IN Ret([s10 EXCEPT !.packet_len = len], 0)

\* file: <<>> when the gyro calibration file does not exist, else its lines
load_gyro_offets(s, file) ==
    IF file = <<>> THEN Ret(Mark(s, "warn", "no gyro calibration"), -1)
    ELSE
       LET xyz == ScanGyroFile(file)
           b(x) == LET q == CDiv(0 - x, 4) IN <<(q \div 256) % 256, q % 256>>
           s1 == WrV(s, "XG_OFFSET_H", b(xyz[1]) \o b(xyz[2]) \o b(xyz[3]))
       IN IF ~s1.ok THEN Ret(s1, -1) ELSE Ret(s1, 0)

\* set_gyro_fsr, set_accel_fsr, set_gyro_dlpf, set_accel_dlpf: the range and
\* filter registers are written, the results are not checked
SetRanges(s) ==
    LET s1 == Wr(s, "GYRO_CONFIG", {}, s.config.gyro_fsr)
        s2 == Wr(s1, "ACCEL_CONFIG", {}, s.config.accel_fsr)
        s3 == Wr(s2, "CONFIG", {}, s.config.gyro_dlpf)
        s4 == Wr(s3, "ACCEL_CONFIG_2", {}, s.config.accel_dlpf)
    IN s4

\* full-scale factors: g per 32768 counts and degrees/s per 32768 counts
AccelScale(fsr) == CASE fsr = 0 -> 2 [] fsr = 1 -> 4 [] fsr = 2 -> 8 [] OTHER -> 16
GyroScale(fsr) == CASE fsr = 0 -> 250 [] fsr = 1 -> 500 [] fsr = 2 -> 1000 [] OTHER -> 2000

i2c_claim_bus(s) == Mark(s, "bus", "claim")
i2c_release_bus(s) == Mark(s, "bus", "release")

Max(S) == CHOOSE x \in S : \A y \in S : y <= x

\* the in-use flag after the claims and releases of a trace
InUseAfter(tr, v0) ==
    LET idx == {j \in 1..Len(tr) : tr[j].k = "bus"}
    IN IF idx = {} THEN v0 ELSE tr[Max(idx)].r = "claim"

(***************************************************************************)
(* initialize_imu_dmp.  Environment of one call:                           *)
(*   e.gpio_ok, e.i2c_ok   gpio_export / i2c_init succeed                  *)
(*   e.whoami   the value of the identity register                         *)
(*   e.file     the gyro calibration file (<<>>: missing)                  *)
(*   e.fails    ordinals of the bus transfers that fail                    *)
(*   e.corrupt  firmware chunks that read back wrong                       *)
(*   e.asa      magnetometer fuse-ROM bytes                                *)
(* The result names the stage the call reached: "config" (rejected before  *)
(* any hardware access), "gpio", "i2c_init", "early" (failed after the     *)
(* claim, before the driver globals are set), "late" (failed afterwards),  *)
(* "done".                                                                 *)
(***************************************************************************)
\* the exit of every failing step after the claim: release, return -1
InitAbortNoRelease(s) == Ret(s, -1)
InitAbort(s) == Ret(i2c_release_bus(s), -1)

\* the magnetometer registers written after mpu_set_dmp_state
MagFifoSetup(s) ==
    LET s1 == Wr(s, "FIFO_EN", {"FIFO_SLV0_EN"}, 0)
        s2 == Wr(s1, "I2C_MST_CTRL", {}, 141)
        s3 == Wr(s2, "I2C_SLV0_ADDR", {}, 140)
        s4 == Wr(s3, "I2C_SLV0_REG", {"AK8963_XOUT_L"}, 0)
        s5 == Wr(s4, "I2C_SLV0_CTRL", {}, 135)
    IN [s5 EXCEPT !.packet_len = @ + 7]

\* lines 516-595: the configuration after the driver globals are set.  Each
\* operator below takes the bus thread c as the step before it left it, tests
\* that step's result as the code does, and goes on with the next step.
\* lines 573-595: after mpu_set_dmp_state
AfterDmpState(c, conf) ==
    IF c.ret < 0 THEN InitAbort(c)
    ELSE Ret(i2c_release_bus(IF conf.enable_magnetometer # 0 THEN MagFifoSetup(c) ELSE c), 0)

\* lines 568-573: after dmp_set_interrupt_mode
AfterInterruptMode(c, conf) ==
    IF c.ret < 0 THEN InitAbort(c)
    ELSE AfterDmpState(mpu_set_dmp_state(c, 1), conf)

\* lines 563-568: after dmp_set_fifo_rate
AfterFifoRate(c, conf) ==
    IF c.ret < 0 THEN InitAbort(c)
    ELSE AfterInterruptMode(dmp_set_interrupt_mode(c, "DMP_INT_CONTINUOUS"), conf)

\* lines 557-563: after dmp_enable_feature
AfterFeatures(c, conf) ==
    IF c.ret < 0 THEN InitAbort(c)
    ELSE AfterFifoRate(dmp_set_fifo_rate(c, c.config.dmp_sample_rate), conf)

\* lines 552-557: after dmp_set_orientation
AfterOrientation(c, conf) ==
    IF c.ret < 0 THEN InitAbort(c)
    ELSE AfterFeatures(dmp_enable_feature(c, {"6X_LP_QUAT", "SEND_RAW_ACCEL",
                                              "SEND_RAW_GYRO"}), conf)

\* lines 547-552: after dmp_load_motion_driver_firmware
AfterFirmware(c, conf) ==
    IF c.ret < 0 THEN InitAbort(c)
    ELSE AfterOrientation(dmp_set_orientation(c, conf.orientation), conf)

\* lines 535-547: after the magnetometer has been initialized or powered down
AfterMagnetometer(c, conf, e) ==
    IF c.ret # 0 THEN InitAbort(c)
    ELSE AfterFirmware(dmp_load_motion_driver_firmware(c, e.corrupt), conf)

\* lines 529-543: after mpu_set_sample_rate
AfterSampleRate(c, conf, e) ==
    IF c.ret < 0 THEN InitAbort(c)
    ELSE AfterMagnetometer(IF conf.enable_magnetometer # 0
                              THEN initialize_magnetometer(c, e.asa)
                              ELSE Ret(power_down_magnetometer(c), 0), conf, e)

\* lines 526-529: after the ranges and filters, the sample rate
AfterRanges(c, conf, e) ==
    AfterSampleRate(mpu_set_sample_rate(c, c.config.dmp_sample_rate), conf, e)

InitConfigure(c3, conf, e) == AfterRanges(SetRanges(c3), conf, e)

\* the result of a call that got as far as setting the driver globals
InitLate(c) == [ret |-> c.ret, s |-> c, stage |-> IF c.ret = 0 THEN "done" ELSE "late"]

\* the checks of the requested rate that precede every hardware access
ConfigRejectedRangeOnly(conf) ==
    conf.dmp_sample_rate > DMP_MAX_RATE \/ conf.dmp_sample_rate < DMP_MIN_RATE
ConfigRejected(conf) ==
    IF conf.dmp_sample_rate > DMP_MAX_RATE \/ conf.dmp_sample_rate < DMP_MIN_RATE
       THEN TRUE
       ELSE DMP_MAX_RATE % conf.dmp_sample_rate # 0

\* the test of the identity register
IdentityOkAlways(c) == TRUE
IdentityOk(c) == c = WHO_AM_I_EXPECTED

initialize_imu_dmp(conf, e) ==
    LET z == Bus(<<>>, e.fails)
        R(stage, s) == [ret |-> s.ret, s |-> s, stage |-> stage]
    IN IF ConfigRejected(conf)
          THEN R("config", Ret(z, -1))
       ELSE IF ~e.gpio_ok
          THEN R("gpio", Ret(Mark(z, "gpio", "export"), -1))
       ELSE
       LET g1 == Mark(Mark(Mark(z, "gpio", "export"), "gpio", "set_dir"), "gpio", "set_edge")
           g2 == Mark(g1, "i2c_init", "IMU_BUS")
       IN IF ~e.i2c_ok THEN R("i2c_init", Ret(g2, -1))
          ELSE
          LET c0 == i2c_claim_bus(g2)
              c1 == RdN(c0, "WHO_AM_I", e.whoami)
              c2 == load_gyro_offets(c1, e.file)
          IN IF ~c1.ok THEN R("early", InitAbort(c1))
             ELSE IF ~IdentityOk(e.whoami) THEN R("early", InitAbort(c1))
             ELSE IF c2.ret < 0 THEN R("early", InitAbort(c2))
             ELSE
             InitLate(InitConfigure([c2 EXCEPT !.dmp_en = 1, !.config = conf], conf, e))

(***************************************************************************)
(* The state                                                               *)
(***************************************************************************)
Threads == 1..MaxThreads

ZeroConfig ==
    [accel_fsr |-> 0, gyro_fsr |-> 0, gyro_dlpf |-> 0, accel_dlpf |-> 0,
     enable_magnetometer |-> 0, dmp_sample_rate |-> 0, orientation |-> 0,
     show_warnings |-> 0]

ZeroData ==
    [accel |-> <<0, 0, 0>>, gyro |-> <<0, 0, 0>>, mag |-> <<0, 0, 0>>,
     raw_gyro |-> <<0, 0, 0>>, raw_accel |-> <<0, 0, 0>>,
     accel_to_ms2 |-> 0, gyro_to_degs |-> 0,
     dmp_quat |-> <<0, 0, 0, 0>>, dmp_TaitBryan |-> <<0, 0, 0>>,
     fused_quat |-> TaitBryanToQuaternion(<<0, 0, 0>>), fused_TaitBryan |-> <<0, 0, 0>>,
     compass_heading |-> 0]

\* the input record of a step that is no decode
NoIn == [fails |-> {}, short |-> {}, count1 |-> 0, count2 |-> 0, pk1 |-> <<>>,
         pk2 |-> <<>>, wide |-> FALSE, eul |-> <<0, 0, 0>>, nan |-> FALSE, magyaw |-> 0]

NoThread == [pc |-> "none", first_run |-> 1, ret |-> 0, edges |-> 0, cbs |-> 0,
             joined |-> FALSE]

\* the operands of a step that is no DMP memory access
NoMem == [addr |-> 0, length |-> 0, corrupt |-> {}]

\* the environment of a step that is no gyro calibration
NoGyro == [i2c_ok |-> TRUE, fails |-> {}, count |-> <<0, 0>>, fifo |-> <<>>,
           file |-> "ok", div0 |-> <<>>]

\* the environment of a step that is no magnetometer calibration
NoMagCal == [i2c_ok |-> TRUE, fails |-> {}, whoami |-> 0, asa |-> <<0, 0, 0>>,
             stop |-> [kind |-> "none", at |-> 0],
             fit |-> [ret |-> 0, center |-> <<0, 0, 0>>, lengths |-> <<0, 0, 0>>],
             file |-> "ok"]

Call(op, t, ret, tr) ==
    [op |-> op, t |-> t, ret |-> ret, trace |-> tr, i |-> 0, raw |-> <<>>,
     arg |-> ZeroConfig, in |-> NoIn, mem |-> NoMem, gyro |-> NoGyro,
     magcal |-> NoMagCal]

\* no calibration has been run: neither calibration file exists
NoStore == [gyro |-> <<>>, mag |-> <<>>]

Init ==
    /\ store = NoStore
    /\ config = ZeroConfig
    /\ dmp_en = 0
    /\ bypass_en = 0
    /\ packet_len = 0
    /\ data_ptr = 0
    /\ interrupt_running = 0
    /\ imu_interrupt_func = "NULL"
    /\ imu_interrupt_thread = 0
    /\ shutdown_interrupt_thread = 0
    /\ last_read_successful = 0
    /\ fifo_first_run = 1
    /\ fusion = [lastDMPYaw |-> 0, lastYaw |-> 0, first_run |-> 1]
    /\ mag_factory_adjust = <<0, 0, 0>>
    /\ mag_offsets = <<0, 0, 0>>
    /\ mag_scales = <<0, 0, 0>>
    /\ data = ZeroData
    /\ in_use = FALSE
    /\ regs = [r \in RegNames |-> RegVal({}, 0)]
    /\ state = "RUNNING"
    /\ thr = [t \in Threads |-> NoThread]
    /\ caller = "idle"
    /\ call = Call("none", 0, 0, <<>>)

(***************************************************************************)
(* Inputs of the bring-up                                                  *)
(***************************************************************************)
\* number of bus transfers of the longest bring-up
MaxBusOps == 100

Rates == {3, 4, 30, 50, 200, 201}

Confs ==
    {[accel_fsr |-> 1, gyro_fsr |-> 2, gyro_dlpf |-> 1, accel_dlpf |-> 1,
      enable_magnetometer |-> m, dmp_sample_rate |-> r, orientation |-> o,
      show_warnings |-> w] :
        m \in {0, 1}, r \in Rates, o \in {ORIENTATION_Z_UP, ORIENTATION_Y_DOWN},
        w \in {0, 1}}

GoodEnv ==
    [gpio_ok |-> TRUE, i2c_ok |-> TRUE, whoami |-> WHO_AM_I_EXPECTED,
     file |-> GyroFileText(<<100, -100, 7>>), fails |-> {}, corrupt |-> {},
     asa |-> <<176, 128, 100>>]

InitEnvs ==
    {GoodEnv,
     [GoodEnv EXCEPT !.gpio_ok = FALSE],
     [GoodEnv EXCEPT !.i2c_ok = FALSE],
     [GoodEnv EXCEPT !.whoami = 0],
     [GoodEnv EXCEPT !.file = <<>>],
     [GoodEnv EXCEPT !.corrupt = {0}],
     [GoodEnv EXCEPT !.corrupt = {DMP_LOAD_CHUNK}]}
    \cup {[GoodEnv EXCEPT !.fails = {k}] : k \in 1..MaxBusOps}

FreeThread == CHOOSE t \in Threads : thr[t].pc = "none" /\ \A u \in Threads : thr[u].pc = "none" => t <= u

(***************************************************************************)
(* Operations of the application thread                                    *)
(***************************************************************************)
InitializeImuDmp(ConfSet, EnvSet) ==
    /\ caller = "idle"
    /\ \E t \in Threads : thr[t].pc = "none"
    /\ \E conf \in ConfSet, e \in EnvSet :
       \E r \in {initialize_imu_dmp(conf, e)} :
         LET late == r.stage \in {"late", "done"}
         IN /\ regs' = r.s.regs
            /\ dmp_en' = r.s.dmp_en
            /\ config' = r.s.config
            /\ packet_len' = r.s.packet_len
            /\ bypass_en' = r.s.bypass_en
            /\ mag_factory_adjust' = r.s.mag_factory_adjust
            /\ data_ptr' = IF late THEN 1 ELSE data_ptr
            /\ data' = IF late
                          THEN [data EXCEPT !.accel_to_ms2 = AccelScale(conf.accel_fsr),
                                            !.gyro_to_degs = GyroScale(conf.gyro_fsr)]
                          ELSE data
            /\ in_use' = InUseAfter(r.s.tr, in_use)
            /\ IF r.stage = "done"
                  THEN /\ interrupt_running' = 1
                       /\ shutdown_interrupt_thread' = 0
                       /\ imu_interrupt_func' = "null_func"
                       /\ imu_interrupt_thread' = FreeThread
                       /\ thr' = [thr EXCEPT ![FreeThread] = [NoThread EXCEPT !.pc = "start"]]
                  ELSE UNCHANGED <<interrupt_running, shutdown_interrupt_thread,
                                   imu_interrupt_func, imu_interrupt_thread, thr>>
            /\ call' = [Call("initialize_imu_dmp", 0, r.ret, r.s.tr)
                           EXCEPT !.arg = conf, !.in = [NoIn EXCEPT !.fails = e.fails]]
    /\ UNCHANGED <<store, last_read_successful, fifo_first_run, fusion, mag_offsets,
                   mag_scales, state, caller>>

\* power_off_imu up to the join: the flag is set, the device is reset and put
\* to sleep; a failed write returns -1 without waiting for the sampler
PowerOffImu ==
    /\ caller = "idle"
    /\ imu_interrupt_thread # 0
    /\ ~thr[imu_interrupt_thread].joined
    /\ \E fails \in {{}, {1}, {2}} :
         LET s1 == Wr(Bus(<<>>, fails), "PWR_MGMT_1", {"H_RESET"}, 0)
             s2 == Wr(s1, "PWR_MGMT_1", {"MPU_SLEEP"}, 0)
             s == IF ~s1.ok THEN Ret(s1, -1) ELSE IF ~s2.ok THEN Ret(s2, -1) ELSE Ret(s2, 0)
         IN /\ shutdown_interrupt_thread' = 1
            /\ regs' = s.regs
            /\ caller' = IF s.ret = 0 THEN "joining" ELSE "idle"
            /\ call' = Call("power_off_imu", 0, s.ret, s.tr)
    /\ UNCHANGED <<store, config, dmp_en, bypass_en, packet_len, data_ptr, interrupt_running,
                   imu_interrupt_func, imu_interrupt_thread, last_read_successful,
                   fifo_first_run, fusion, mag_factory_adjust, mag_offsets, mag_scales,
                   data, in_use, state, thr>>

\* pthread_timedjoin_np: the sampler has exited, or one second has passed
PowerOffJoin ==
    /\ caller = "joining"
    /\ caller' = "idle"
    /\ \E timeout \in BOOLEAN :
         /\ ~timeout => thr[imu_interrupt_thread].pc = "done"
         /\ thr' = IF timeout THEN thr
                   ELSE [thr EXCEPT ![imu_interrupt_thread].joined = TRUE]
         /\ call' = Call("power_off_join", 0, IF timeout THEN 1 ELSE 0, <<>>)
    /\ UNCHANGED <<store, config, dmp_en, bypass_en, packet_len, data_ptr, interrupt_running,
                   imu_interrupt_func, imu_interrupt_thread, shutdown_interrupt_thread,
                   last_read_successful, fifo_first_run, fusion, mag_factory_adjust,
                   mag_offsets, mag_scales, data, in_use, regs, state>>

SetImuInterruptFuncOf(Funcs) ==
    /\ caller = "idle"
    /\ \E func \in Funcs :
         /\ imu_interrupt_func' = func
         /\ call' = [Call("set_imu_interrupt_func", 0, 0, <<>>) EXCEPT !.raw = <<func>>]
    /\ interrupt_running' = 1
    /\ UNCHANGED <<store, config, dmp_en, bypass_en, packet_len, data_ptr, imu_interrupt_thread,
                   shutdown_interrupt_thread, last_read_successful, fifo_first_run,
                   fusion, mag_factory_adjust, mag_offsets, mag_scales, data, in_use,
                   regs, state, thr, caller>>

StopImuInterruptFunc ==
    /\ caller = "idle"
    /\ interrupt_running' = 0
    /\ call' = Call("stop_imu_interrupt_func", 0, 0, <<>>)
    /\ UNCHANGED <<store, config, dmp_en, bypass_en, packet_len, data_ptr, imu_interrupt_func,
                   imu_interrupt_thread, shutdown_interrupt_thread, last_read_successful,
                   fifo_first_run, fusion, mag_factory_adjust, mag_offsets, mag_scales,
                   data, in_use, regs, state, thr, caller>>

\* the application registers its one callback
SetImuInterruptFunc == SetImuInterruptFuncOf({"user"})

(***************************************************************************)
(* The barometer, on the bus of the IMU.  A status byte is the set of its  *)
(* flags.  Environment of one initialize_barometer:                        *)
(*   e.i2c_ok   i2c_init succeeds                                          *)
(*   e.fails    ordinals of the bus transfers that fail                    *)
(*   e.chip_id  the value of the chip ID register                          *)
(*   e.status   the status byte                                            *)
(***************************************************************************)
\* bmp_oversample_t: BMP_OVERSAMPLE_1, _2, _4, _8, _16
BmpOversamples == 0..4

\* the pressure oversampling bits of the measurement control register
BmpPresOversample(oversampling) ==
    CASE oversampling = 0 -> "BMP_PRES_OVERSAMPLE_1"
      [] oversampling = 1 -> "BMP_PRES_OVERSAMPLE_2"
      [] oversampling = 2 -> "BMP_PRES_OVERSAMPLE_4"
      [] oversampling = 3 -> "BMP_PRES_OVERSAMPLE_8"
      [] oversampling = 4 -> "BMP_PRES_OVERSAMPLE_16"
      [] OTHER -> "none"

\* every return before the last releases the bus and gives -1
BmpAbort(s) == Ret(i2c_release_bus(s), -1)

\* from the read of the status byte: c | BMP280_IM_UPDATE_STATUS is tested
BmpInitCalibration(s, e) ==
    LET s1 == Rd(s, "BMP280_STATUS_REG")
        s2 == Rd(s1, "BMP280_DIG_T1")
    IN IF ~s1.ok THEN BmpAbort(s1)
       ELSE IF e.status \cup {"BMP280_IM_UPDATE_STATUS"} # {} THEN BmpAbort(s1)
       ELSE IF ~s2.ok THEN BmpAbort(s2)
       ELSE Ret(i2c_release_bus(s2), 0)

\* from the switch over the selector
BmpInitControl(s, oversampling, e) ==
    LET bits == BmpPresOversample(oversampling)
        s1 == Wr(s, "BMP280_CTRL_MEAS", {"BMP280_TSB_0", "BMP_MODE_NORMAL", bits}, 0)
        s2 == Wr(s1, "BMP280_CONFIG", {"BMP280_TSB_0", "BMP280_FILTER_OFF"}, 0)
    IN IF bits = "none" THEN BmpAbort(Mark(s, "error", "invalid oversampling"))
       ELSE IF ~s1.ok THEN BmpAbort(s1)
       ELSE IF ~s2.ok THEN BmpAbort(s2)
       ELSE BmpInitCalibration(s2, e)

initialize_barometer(busy, oversampling, e) ==
    LET z == Bus(<<>>, e.fails)
        s0 == i2c_claim_bus(IF busy THEN Mark(z, "warn", "bus claimed") ELSE z)
        s1 == Mark(s0, "i2c_init", "BMP_BUS")
        s2 == Wr(s1, "BMP280_RESET_REG", {"BMP280_RESET_WORD"}, 0)
        s3 == Rd(s2, "BMP280_CHIP_ID_REG")
    IN IF ~e.i2c_ok THEN BmpAbort(s1)
       ELSE IF ~s2.ok THEN BmpAbort(s2)
       ELSE IF ~s3.ok THEN BmpAbort(s3)
       ELSE IF e.chip_id # "BMP280_CHIP_ID" THEN BmpAbort(s3)
       ELSE BmpInitControl(s3, oversampling, e)

GoodBaro == [i2c_ok |-> TRUE, fails |-> {}, chip_id |-> "BMP280_CHIP_ID", status |-> {}]

BaroEnvs ==
    {GoodBaro, [GoodBaro EXCEPT !.i2c_ok = FALSE], [GoodBaro EXCEPT !.chip_id = "other"],
     [GoodBaro EXCEPT !.status = {"BMP280_MEAS_STATUS"}]}
    \cup {[GoodBaro EXCEPT !.fails = {k}] : k \in 1..6}

\* the selectors of the enumeration, and two values outside it
BaroSelectors == BmpOversamples \cup {-1, 5}

BaroUnchanged ==
    UNCHANGED <<store, config, dmp_en, bypass_en, packet_len, data_ptr, interrupt_running,
                imu_interrupt_func, imu_interrupt_thread, shutdown_interrupt_thread,
                last_read_successful, fifo_first_run, fusion, mag_factory_adjust,
                mag_offsets, mag_scales, data, state, thr>>

InitializeBarometer ==
    /\ caller = "idle"
    /\ \E oversampling \in BaroSelectors, e \in BaroEnvs :
       \E s \in {initialize_barometer(in_use, oversampling, e)} :
         /\ regs' = s.regs
         /\ in_use' = InUseAfter(s.tr, in_use)
         /\ call' = [Call("initialize_barometer", 0, s.ret, s.tr)
                        EXCEPT !.raw = <<oversampling>>, !.in = [NoIn EXCEPT !.fails = e.fails]]
    /\ UNCHANGED caller
    /\ BaroUnchanged

(***************************************************************************)
(* read_barometer, one action per step of the calling thread: the test of  *)
(* the in-use flag, the claim, the read of the status byte, the read of    *)
(* the sample and the compensation.  Each step takes from the environment  *)
(* whether its transfer succeeds; var3, the divisor the 64-bit             *)
(* compensation arithmetic computes from the sample and the coefficients,  *)
(* is zero or not.                                                         *)
(***************************************************************************)
\* the positions of a caller inside read_barometer
BaroPositions == {"baro_claim", "baro_status", "baro_data"}

\* if(i2c_get_in_use_state(BMP_BUS)) return -1
ReadBarometerEntry ==
    /\ caller = "idle"
    /\ IF in_use
          THEN /\ call' = Call("read_barometer", 0, -1, <<Ev("warn", "bus claimed", {}, 0)>>)
               /\ UNCHANGED caller
          ELSE /\ call' = Call("baro_entry", 0, 0, <<>>)
               /\ caller' = "baro_claim"
    /\ UNCHANGED <<in_use, regs>>
    /\ BaroUnchanged

\* i2c_claim_bus, i2c_set_device_address
ReadBarometerClaim ==
    /\ caller = "baro_claim"
    /\ \E ok \in BOOLEAN :
         IF ok
            THEN /\ in_use' = TRUE
                 /\ caller' = "baro_status"
                 /\ call' = Call("baro_claim", 0, 0, <<Ev("bus", "claim", {}, 0)>>)
            ELSE /\ in_use' = FALSE
                 /\ caller' = "idle"
                 /\ call' = Call("read_barometer", 0, -1,
                                 <<Ev("bus", "claim", {}, 0), Ev("bus", "release", {}, 0)>>)
    /\ UNCHANGED regs
    /\ BaroUnchanged

\* the status byte: an error, no new data, or new data
ReadBarometerStatus ==
    /\ caller = "baro_status"
    /\ \E ok \in BOOLEAN, status \in {{}, {"BMP280_MEAS_STATUS"}} :
         IF ok /\ "BMP280_MEAS_STATUS" \notin status
            THEN /\ caller' = "baro_data"
                 /\ call' = Call("baro_status", 0, 0, <<Ev("rd", "BMP280_STATUS_REG", {}, 0)>>)
                 /\ UNCHANGED in_use
            ELSE /\ caller' = "idle"
                 /\ in_use' = FALSE
                 /\ call' = Call("read_barometer", 0, IF ok THEN 1 ELSE -1,
                                 <<Ev("rd", "BMP280_STATUS_REG", status, 0),
                                   Ev("bus", "release", {}, 0)>>)
    /\ UNCHANGED regs
    /\ BaroUnchanged

\* the six bytes of the sample and the compensation; the two returns after
\* the compensation do not release the bus
ReadBarometerData ==
    /\ caller = "baro_data"
    /\ caller' = "idle"
    /\ \E ok \in BOOLEAN, var3_zero \in BOOLEAN :
         IF ~ok
            THEN /\ in_use' = FALSE
                 /\ call' = Call("read_barometer", 0, 1,
                                 <<Ev("rd", "BMP280_PRESSURE_MSB", {}, 0),
                                   Ev("bus", "release", {}, 0)>>)
            ELSE /\ UNCHANGED in_use
                 /\ call' = Call("read_barometer", 0, 0,
                                 <<Ev("rd", "BMP280_PRESSURE_MSB", {}, 0),
                                   Ev("var3", IF var3_zero THEN "zero" ELSE "nonzero", {}, 0)>>)
    /\ UNCHANGED regs
    /\ BaroUnchanged

ReadBarometer ==
    \/ ReadBarometerEntry
    \/ ReadBarometerClaim
    \/ ReadBarometerStatus
    \/ ReadBarometerData

\* the program lifecycle state becomes EXITING (set_state, a signal handler)
SetStateExiting ==
    /\ state # "EXITING"
    /\ state' = "EXITING"
    /\ call' = Call("set_state", 0, 0, <<>>)
    /\ UNCHANGED <<store, config, dmp_en, bypass_en, packet_len, data_ptr, interrupt_running,
                   imu_interrupt_func, imu_interrupt_thread, shutdown_interrupt_thread,
                   last_read_successful, fifo_first_run, fusion, mag_factory_adjust,
                   mag_offsets, mag_scales, data, in_use, regs, thr, caller>>

(***************************************************************************)
(* The DMP memory functions, taken one call at a time                      *)
(***************************************************************************)
\* addresses around the boundary of a bank, and chunk lengths
MemAddrs == {0, 240, 250, 255, 496, 511}
MemLengths == {1, 6, 16, 17}
MemFails == {{}, {1}, {2}}

\* the driver variables a DMP memory function leaves alone
MemUnchanged ==
    UNCHANGED <<store, config, dmp_en, bypass_en, packet_len, data_ptr, interrupt_running,
                imu_interrupt_func, imu_interrupt_thread, shutdown_interrupt_thread,
                last_read_successful, fifo_first_run, fusion, mag_factory_adjust,
                mag_offsets, mag_scales, data, in_use, state, thr, caller>>

MpuWriteMem ==
    /\ \E a \in MemAddrs, n \in MemLengths, fails \in MemFails :
       \E s \in {mpu_write_mem(Bus(<<>>, fails), a, n, <<a, n>>)} :
         /\ regs' = s.regs
         /\ call' = [Call("mpu_write_mem", 0, s.ret, s.tr)
                        EXCEPT !.in = [NoIn EXCEPT !.fails = fails],
                               !.mem = [NoMem EXCEPT !.addr = a, !.length = n]]
    /\ MemUnchanged

MpuReadMem ==
    /\ \E a \in MemAddrs, n \in MemLengths, fails \in MemFails :
       \E s \in {mpu_read_mem(Bus(<<>>, fails), a, n)} :
         /\ regs' = s.regs
         /\ call' = [Call("mpu_read_mem", 0, s.ret, s.tr)
                        EXCEPT !.in = [NoIn EXCEPT !.fails = fails],
                               !.mem = [NoMem EXCEPT !.addr = a, !.length = n]]
    /\ MemUnchanged

\* offsets of the chunks of the firmware image
ChunkOffsets == {ii \in 0..(DMP_CODE_SIZE - 1) : ii % DMP_LOAD_CHUNK = 0}

\* number of bus transfers of the longest upload
MaxLoadOps == 14

DmpLoadMotionDriverFirmware ==
    /\ \E corrupt \in SUBSET ChunkOffsets, fails \in {{}} \cup {{k} : k \in 1..MaxLoadOps} :
       \E s \in {dmp_load_motion_driver_firmware(Bus(<<>>, fails), corrupt)} :
         /\ regs' = s.regs
         /\ call' = [Call("dmp_load_motion_driver_firmware", 0, s.ret, s.tr)
                        EXCEPT !.in = [NoIn EXCEPT !.fails = fails],
                               !.mem = [NoMem EXCEPT !.corrupt = corrupt]]
    /\ MemUnchanged

(***************************************************************************)
(* calibrate_gyro_routine.  Environment of one call:                       *)
(*   e.i2c_ok   i2c_init succeeds                                          *)
(*   e.fails    ordinals of the bus transfers that fail                    *)
(*   e.count    the two bytes data[0..1] holds after FIFO_COUNTH is read   *)
(*              (uninitialized, so arbitrary, when that read failed)       *)
(*   e.fifo     the six-byte samples the FIFO returns, in order            *)
(*   e.file     "ok", "noopen" (fopen fails twice) or "nowrite" (fprintf   *)
(*              fails on the opened, truncated file)                       *)
(*   e.div0     what the division by a sample count of zero produces: <<>> *)
(*              when it raises a signal that ends the program, else the    *)
(*              three quotients                                            *)
(***************************************************************************)
\* longest sequence of bus transfers of one gyro calibration
MaxGyroOps == 19

\* truncating division of C for signed operands (divisor # 0)
CQuot(a, b) == IF b > 0 THEN CDiv(a, b) ELSE 0 - CDiv(a, 0 - b)

\* the registers written before the FIFO is read; no result is checked
GyroCalSetup(s) ==
    LET s1 == Wr(s, "PWR_MGMT_1", {}, 1)
        s2 == Wr(s1, "PWR_MGMT_2", {}, 0)
        s3 == Wr(s2, "INT_ENABLE", {}, 0)
        s4 == Wr(s3, "FIFO_EN", {}, 0)
        s5 == Wr(s4, "PWR_MGMT_1", {}, 0)
        s6 == Wr(s5, "I2C_MST_CTRL", {}, 0)
        s7 == Wr(s6, "USER_CTRL", {}, 0)
        s8 == Wr(s7, "USER_CTRL", {}, 12)
        s9 == Wr(s8, "CONFIG", {}, 1)
        s10 == Wr(s9, "SMPLRT_DIV", {}, 4)
        s11 == Wr(s10, "GYRO_CONFIG", {}, 0)
        s12 == Wr(s11, "ACCEL_CONFIG", {}, 0)
        s13 == Wr(s12, "USER_CTRL", {}, 64)
        s14 == Wr(s13, "FIFO_EN", {"FIFO_GYRO_X_EN", "FIFO_GYRO_Y_EN", "FIFO_GYRO_Z_EN"}, 0)
        s15 == Wr(s14, "FIFO_EN", {}, 0)
    IN Rd(s15, "FIFO_COUNTH")

\* x, y, z of one six-byte sample
GyroSample(d) == <<S16(d[1], d[2]), S16(d[3], d[4]), S16(d[5], d[6])>>

AddVec(a, b) == <<a[1] + b[1], a[2] + b[2], a[3] + b[3]>>

\* the loop over the samples: a failed read ends the routine
RECURSIVE GyroSumLoop(_, _, _, _, _)
RECURSIVE GyroSumStep(_, _, _, _, _)
GyroSumLoop(s, i, samples, fifo, gyro_sum) ==
    IF ~(i < samples) THEN [s |-> Ret(s, 0), gyro_sum |-> gyro_sum]
    ELSE GyroSumStep(Rd(s, "FIFO_R_W"), i, samples, fifo, gyro_sum)

GyroSumStep(s1, i, samples, fifo, gyro_sum) ==
    IF ~s1.ok THEN [s |-> Ret(s1, -1), gyro_sum |-> gyro_sum]
    ELSE GyroSumLoop(s1, i + 1, samples, fifo, AddVec(gyro_sum, GyroSample(fifo[i + 1])))

\* offsets[k] = (int16_t)(gyro_sum[k] / (int32_t)samples)
GyroAverageNoDivide(gyro_sum, samples) == gyro_sum
GyroAverage(gyro_sum, samples) ==
    <<CQuot(gyro_sum[1], samples), CQuot(gyro_sum[2], samples), CQuot(gyro_sum[3], samples)>>

\* write_gyro_offets_to_disk: the new content of the file and the result
write_gyro_offets_to_disk(s, file, offsets, outcome) ==
    IF outcome = "noopen" THEN [s |-> Ret(Mark(s, "file", "noopen"), -1), gyro |-> file]
    ELSE IF outcome = "nowrite" THEN [s |-> Ret(Mark(s, "file", "nowrite"), -1), gyro |-> <<>>]
    ELSE [s |-> Ret(Mark(s, "file", "written"), 0), gyro |-> GyroFileText(offsets)]

\* the end of the routine: the bus is released, the averages are taken and
\* written to the file
GyroCalFinish(l, samples, file, e) ==
    IF l.s.ret < 0 THEN [s |-> l.s, gyro |-> file]
    ELSE IF samples = 0 /\ e.div0 = <<>>
       THEN [s |-> Ret(Mark(i2c_release_bus(l.s), "trap", "SIGFPE"), -1), gyro |-> file]
    ELSE write_gyro_offets_to_disk(i2c_release_bus(l.s), file,
                                   IF samples = 0 THEN e.div0
                                   ELSE GyroAverage(l.gyro_sum, samples),
                                   e.file)

GyroCalCapture(s16, samples, file, e) ==
    GyroCalFinish(GyroSumLoop(s16, 0, samples, e.fifo, <<0, 0, 0>>), samples, file, e)

calibrate_gyro_routine(busy, file, e) ==
    LET z == Bus(<<>>, e.fails)
    IN IF busy THEN [s |-> Ret(Mark(z, "warn", "bus claimed"), -1), gyro |-> file]
       ELSE IF ~e.i2c_ok THEN [s |-> Ret(Mark(z, "i2c_init", "IMU_BUS"), -1), gyro |-> file]
       ELSE GyroCalCapture(GyroCalSetup(i2c_claim_bus(Mark(z, "i2c_init", "IMU_BUS"))),
                           CQuot(S16(e.count[1], e.count[2]), 6), file, e)

\* the FIFO of a sensor at rest, and of one that saturates
GyroFifos ==
    {<<<<0, 100, 255, 156, 0, 7>>, <<0, 102, 255, 154, 0, 8>>, <<0, 103, 255, 155, 0, 10>>>>,
     <<<<127, 255, 128, 0, 0, 0>>, <<127, 255, 128, 0, 255, 255>>, <<0, 0, 0, 0, 0, 1>>>>}

GoodGyro ==
    [i2c_ok |-> TRUE, fails |-> {}, count |-> <<0, 18>>,
     fifo |-> <<<<0, 100, 255, 156, 0, 7>>, <<0, 102, 255, 154, 0, 8>>,
                <<0, 103, 255, 155, 0, 10>>>>,
     file |-> "ok", div0 |-> <<>>]

GyroEnvs ==
    {[GoodGyro EXCEPT !.fifo = f, !.count = c] :
        f \in GyroFifos, c \in {<<0, 6>>, <<0, 12>>, <<0, 13>>, <<0, 18>>}}
    \cup {[GoodGyro EXCEPT !.fails = {k}] : k \in 1..MaxGyroOps}
    \cup {[GoodGyro EXCEPT !.file = o] : o \in {"noopen", "nowrite"}}
    \cup {[GoodGyro EXCEPT !.count = <<0, 0>>, !.div0 = d] : d \in {<<>>, <<0, 0, 0>>, <<-1, -1, -1>>}}
    \cup {[GoodGyro EXCEPT !.i2c_ok = FALSE]}

CalibrateGyroRoutine ==
    /\ caller = "idle"
    /\ \E e \in GyroEnvs :
         \E r \in {calibrate_gyro_routine(in_use, store.gyro, e)} :
            /\ regs' = r.s.regs
            /\ in_use' = InUseAfter(r.s.tr, in_use)
            /\ store' = [store EXCEPT !.gyro = r.gyro]
            /\ call' = [Call("calibrate_gyro_routine", 0, r.s.ret, r.s.tr)
                           EXCEPT !.gyro = e, !.in = [NoIn EXCEPT !.fails = e.fails]]
    /\ UNCHANGED <<config, dmp_en, bypass_en, packet_len, data_ptr, interrupt_running,
                   imu_interrupt_func, imu_interrupt_thread, shutdown_interrupt_thread,
                   last_read_successful, fifo_first_run, fusion, mag_factory_adjust,
                   mag_offsets, mag_scales, data, state, thr, caller>>

(***************************************************************************)
(* calibrate_mag_routine.  Environment of one call:                        *)
(*   e.i2c_ok   i2c_init succeeds                                          *)
(*   e.fails    ordinals of the bus transfers that fail                    *)
(*   e.whoami   the value of the identity register                         *)
(*   e.asa      the factory sensitivity bytes of the magnetometer          *)
(*   e.stop     what ends the collection early: kind "err" (read_mag_data  *)
(*              fails), "zero" (an all-zero reading) or "exiting" (the     *)
(*              lifecycle state becomes EXITING), at the iteration .at;    *)
(*              kind "none" when nothing does                              *)
(*   e.fit      the result of fitEllipsoid: its return value, the center   *)
(*              and the axis lengths, finite numbers in microtesla         *)
(*   e.file     "ok", "noopen" or "nowrite", as for the gyro file          *)
(***************************************************************************)
\* longest sequence of bus transfers of one magnetometer calibration
MaxMagOps == 12

MAG_SAMPLES == 200
CENTER_MAX == 70
LENGTH_MIN == 5
LENGTH_MAX == 140
SPHERE_RADIUS == 70

Abs(x) == IF x < 0 THEN 0 - x ELSE x

\* the loop condition fails on the count: enough vectors have been collected
EnoughSamplesAlways(i) == TRUE
EnoughSamples(i) == ~(i < MAG_SAMPLES)

\* the plausibility checks of the fitted ellipsoid
CenterOutOfBounds(center) == \E k \in 1..3 : Abs(center[k]) > CENTER_MAX

LengthOutOfBoundsAbove(lengths) == \E k \in 1..3 : lengths[k] > LENGTH_MAX
LengthOutOfBounds(lengths) ==
    \E k \in 1..3 : lengths[k] > LENGTH_MAX \/ lengths[k] < LENGTH_MIN

\* center.data, whole numbers of microtesla, as fractions
Whole(center) == [k \in 1..3 |-> [num |-> center[k], den |-> 1]]

\* new_scale[k] = 70.0 / lengths[k], kept as a fraction
NewScale(lengths) == [k \in 1..3 |-> [num |-> SPHERE_RADIUS, den |-> lengths[k]]]

\* the lifecycle state read at iteration i of the collection
StateExiting(i, e) == state = "EXITING" \/ (e.stop.kind = "exiting" /\ e.stop.at <= i)

\* what ends the collection loop at iteration i, "" when iteration i stores
\* a vector and goes on
LoopEnd(i, e) ==
    IF ~(i < MAG_SAMPLES /\ ~StateExiting(i, e)) THEN "loop condition"
    ELSE IF e.stop.kind = "err" /\ e.stop.at = i THEN "read error"
    ELSE IF e.stop.kind = "zero" /\ e.stop.at = i THEN "all zero"
    ELSE ""

\* the collection loop: it ends at the first iteration that ends it, having
\* stored one vector in each iteration before
MagSampleLoop(e) ==
    LET i == CHOOSE n \in 0..MAG_SAMPLES :
                 LoopEnd(n, e) # "" /\ \A j \in 0..(n - 1) : LoopEnd(j, e) = ""
    IN [i |-> i, end |-> LoopEnd(i, e)]

\* the trace of the collection: one event for each vector stored, then the
\* event that ended the loop
MagCollect(s, l) ==
    [s EXCEPT !.tr = @ \o [j \in 1..l.i |-> Ev("mag", "stored", {}, 0)]
                       \o <<Ev("mag", l.end, {}, 0)>>]

\* the register writes of power_off_imu; the routine ignores the result
PowerOffWrites(s) ==
    LET s1 == Wr(Mark(s, "fn", "power_off_imu"), "PWR_MGMT_1", {"H_RESET"}, 0)
    IN IF ~s1.ok THEN s1 ELSE Wr(s1, "PWR_MGMT_1", {"MPU_SLEEP"}, 0)

\* the ellipsoid fit: center and lengths from the least-squares fit of the
\* collected vectors, or a negative result
fitEllipsoid(s, e) == Ret(Mark(s, "fn", "fitEllipsoid"), e.fit.ret)

write_mag_cal_to_disk(s, file, offsets, scale, outcome) ==
    IF outcome = "noopen" THEN [s |-> Ret(Mark(s, "file", "noopen"), -1), mag |-> file]
    ELSE IF outcome = "nowrite" THEN [s |-> Ret(Mark(s, "file", "nowrite"), -1), mag |-> <<>>]
    ELSE [s |-> Ret(Mark(s, "file", "written"), 0), mag |-> MagFileText(offsets, scale)]

\* a return before the calibration values in memory are reset
MagCalEarly(s) == [s |-> s, mag |-> <<>>, keep |-> TRUE, reset |-> FALSE]

\* a result after they are reset; keep: the file is left as it is
MagCalLate(w, keep) == [s |-> w.s, mag |-> w.mag, keep |-> keep, reset |-> TRUE]

MagCalChecks(f, e) ==
    IF f.ret < 0 THEN MagCalLate([s |-> Ret(f, -1), mag |-> <<>>], TRUE)
    ELSE IF CenterOutOfBounds(e.fit.center)
       THEN MagCalLate([s |-> Ret(f, -1), mag |-> <<>>], TRUE)
    ELSE IF LengthOutOfBounds(e.fit.lengths)
       THEN MagCalLate([s |-> Ret(f, -1), mag |-> <<>>], TRUE)
    ELSE MagCalLate(write_mag_cal_to_disk(f, <<>>, Whole(e.fit.center), NewScale(e.fit.lengths),
                                          e.file),
                    e.file = "noopen")

MagCalFit(s, i, e) ==
    IF ~EnoughSamples(i) THEN MagCalLate([s |-> Ret(s, -1), mag |-> <<>>], TRUE)
    ELSE MagCalChecks(fitEllipsoid(s, e), e)

MagCalCollected(s, l, e) ==
    MagCalFit(i2c_release_bus(PowerOffWrites(MagCollect(s, l))), l.i, e)

MagCalMagnetometer(m, e) ==
    IF m.ret # 0 THEN MagCalEarly(InitAbort(m))
    ELSE MagCalCollected(m, MagSampleLoop(e), e)

MagCalIdentity(c1, e) ==
    IF ~c1.ok THEN MagCalEarly(InitAbort(c1))
    ELSE IF ~IdentityOk(e.whoami) THEN MagCalEarly(InitAbort(c1))
    ELSE MagCalMagnetometer(initialize_magnetometer(c1, e.asa), e)

calibrate_mag_routine(busy, e) ==
    IF busy THEN MagCalEarly(Ret(Mark(Bus(<<>>, e.fails), "warn", "bus claimed"), -1))
    ELSE IF ~e.i2c_ok
       THEN MagCalEarly(Ret(Mark(Bus(<<>>, e.fails), "i2c_init", "IMU_BUS"), -1))
    ELSE MagCalIdentity(RdN(i2c_claim_bus(Mark(Bus(<<>>, e.fails), "i2c_init", "IMU_BUS")),
                            "WHO_AM_I", e.whoami), e)

GoodFit == [ret |-> 0, center |-> <<12, -30, 70>>, lengths |-> <<5, 70, 140>>]

GoodMagCal ==
    [i2c_ok |-> TRUE, fails |-> {}, whoami |-> WHO_AM_I_EXPECTED, asa |-> <<176, 128, 100>>,
     stop |-> [kind |-> "none", at |-> 0], fit |-> GoodFit, file |-> "ok"]

MagFits ==
    {[GoodFit EXCEPT !.ret = -1]}
    \cup {[GoodFit EXCEPT !.center = c] :
             c \in {<<0, 0, 0>>, <<-70, 70, -70>>, <<71, 0, 0>>, <<0, -71, 0>>, <<0, 0, 71>>}}
    \cup {[GoodFit EXCEPT !.lengths = l] :
             l \in {<<70, 70, 70>>, <<4, 70, 70>>, <<70, 141, 70>>, <<70, 70, 4>>,
                    <<141, 70, 70>>, <<70, 0, 70>>}}

MagStops ==
    {[kind |-> k, at |-> a] : k \in {"err", "zero", "exiting"},
                              a \in {0, 1, MAG_SAMPLES - 1}}
    \cup {[kind |-> "exiting", at |-> MAG_SAMPLES]}

MagCalEnvs ==
    {GoodMagCal, [GoodMagCal EXCEPT !.i2c_ok = FALSE], [GoodMagCal EXCEPT !.whoami = 0]}
    \cup {[GoodMagCal EXCEPT !.fit = f] : f \in MagFits}
    \cup {[GoodMagCal EXCEPT !.stop = st] : st \in MagStops}
    \cup {[GoodMagCal EXCEPT !.file = o] : o \in {"noopen", "nowrite"}}
    \cup {[GoodMagCal EXCEPT !.fails = {k}] : k \in 1..MaxMagOps}

\* the routine in a calibration program, which has no sampler thread: the
\* join of power_off_imu waits for nothing
CalibrateMagRoutine ==
    /\ caller = "idle"
    /\ imu_interrupt_thread = 0
    /\ \E e \in MagCalEnvs :
         \E r \in {calibrate_mag_routine(in_use, e)} :
            /\ regs' = r.s.regs
            /\ bypass_en' = r.s.bypass_en
            /\ mag_factory_adjust' = r.s.mag_factory_adjust
            /\ in_use' = InUseAfter(r.s.tr, in_use)
            /\ mag_offsets' = IF r.reset THEN <<0, 0, 0>> ELSE mag_offsets
            /\ mag_scales' = IF r.reset THEN <<FLOAT_ONE, FLOAT_ONE, FLOAT_ONE>>
                                      ELSE mag_scales
            /\ shutdown_interrupt_thread' = IF r.reset THEN 1 ELSE shutdown_interrupt_thread
            /\ state' = IF r.reset /\ e.stop.kind = "exiting" THEN "EXITING" ELSE state
            /\ store' = IF r.keep THEN store ELSE [store EXCEPT !.mag = r.mag]
            /\ call' = [Call("calibrate_mag_routine", 0, r.s.ret, r.s.tr)
                           EXCEPT !.magcal = e, !.in = [NoIn EXCEPT !.fails = e.fails]]
    /\ UNCHANGED <<config, dmp_en, packet_len, data_ptr, interrupt_running,
                   imu_interrupt_func, imu_interrupt_thread, last_read_successful,
                   fifo_first_run, fusion, data, thr, caller>>

(***************************************************************************)
(* The calibration files written and read back, as a calibration program   *)
(* followed by a bring-up does.  A step leaves in call.raw the values it   *)
(* was given to write, or the values it read.                              *)
(***************************************************************************)
FileOutcomes == {"ok", "noopen", "nowrite"}

\* raw gyro averages handed to write_gyro_offets_to_disk
GyroOffsetValues ==
    {<<0, 0, 0>>, <<101, -101, 8>>, <<-32768, 32767, 10>>, <<-1, 1000, -70>>}

Frac(n, d) == [num |-> n, den |-> d]

\* hard-iron offsets and soft-iron scales handed to write_mag_cal_to_disk
MagOffsetValues ==
    {<<Frac(0, 1), Frac(0, 1), Frac(0, 1)>>,
     <<Frac(12, 1), Frac(-69, 1), Frac(3, 1)>>,
     <<Frac(-1, 3), Frac(205, 8), Frac(-1, 4000000)>>}

MagScaleValues ==
    {<<Frac(1, 1), Frac(1, 1), Frac(1, 1)>>,
     NewScale(<<30, 140, 5>>),
     NewScale(<<69, 71, 139>>)}

\* load_mag_calibration: the values of mag_offsets and mag_scales after it
load_mag_calibration(file, offsets, scales) ==
    IF file = <<>> THEN [ret |-> 0 - 1, offsets |-> offsets, scales |-> scales]
    ELSE [ret |-> 0, offsets |-> ScanMagFile(file).offsets,
          scales |-> ScanMagFile(file).scales]

StoreUnchanged ==
    UNCHANGED <<config, dmp_en, bypass_en, packet_len, data_ptr, interrupt_running,
                imu_interrupt_func, imu_interrupt_thread, shutdown_interrupt_thread,
                last_read_successful, fifo_first_run, fusion, mag_factory_adjust,
                data, state, thr, caller, in_use>>

WriteGyroOffsetsToDisk ==
    /\ \E offsets \in GyroOffsetValues, o \in FileOutcomes :
       \E r \in {write_gyro_offets_to_disk(Bus(<<>>, {}), store.gyro, offsets, o)} :
         /\ store' = [store EXCEPT !.gyro = r.gyro]
         /\ call' = [Call("write_gyro_offets_to_disk", 0, r.s.ret, r.s.tr)
                        EXCEPT !.raw = offsets]
    /\ UNCHANGED <<regs, mag_offsets, mag_scales>>
    /\ StoreUnchanged

LoadGyroOffets ==
    /\ \E fails \in {{}, {1}} :
       \E s \in {load_gyro_offets(Bus(<<>>, fails), store.gyro)} :
         /\ regs' = s.regs
         /\ call' = [Call("load_gyro_offets", 0, s.ret, s.tr)
                        EXCEPT !.raw = IF store.gyro = <<>> THEN <<>>
                                       ELSE ScanGyroFile(store.gyro),
                               !.in = [NoIn EXCEPT !.fails = fails]]
    /\ UNCHANGED <<store, mag_offsets, mag_scales>>
    /\ StoreUnchanged

WriteMagCalToDisk ==
    /\ \E offsets \in MagOffsetValues, scale \in MagScaleValues, o \in FileOutcomes :
       \E r \in {write_mag_cal_to_disk(Bus(<<>>, {}), store.mag, offsets, scale, o)} :
         /\ store' = [store EXCEPT !.mag = r.mag]
         /\ call' = [Call("write_mag_cal_to_disk", 0, r.s.ret, r.s.tr)
                        EXCEPT !.raw = <<offsets, scale>>]
    /\ UNCHANGED <<regs, mag_offsets, mag_scales>>
    /\ StoreUnchanged

LoadMagCalibration ==
    /\ \E r \in {load_mag_calibration(store.mag, mag_offsets, mag_scales)} :
         /\ mag_offsets' = r.offsets
         /\ mag_scales' = r.scales
         /\ call' = Call("load_mag_calibration", 0, r.ret, <<>>)
    /\ UNCHANGED <<regs, store>>
    /\ StoreUnchanged

(***************************************************************************)
(* The two magnetometer functions of the bring-up, each called on the      *)
(* device as the calls before it have left it.                             *)
(***************************************************************************)
\* sensitivity bytes of the fuse ROM
AsaValues == {<<176, 128, 100>>, <<0, 255, 128>>, <<128, 128, 128>>}

\* at most one transfer of a call fails
MagInitFails == {{}} \cup {{k} : k \in 1..7}

MagInitUnchanged ==
    UNCHANGED <<store, config, dmp_en, packet_len, data_ptr, interrupt_running,
                imu_interrupt_func, imu_interrupt_thread, shutdown_interrupt_thread,
                last_read_successful, fifo_first_run, fusion, mag_offsets, mag_scales,
                data, state, thr, caller, in_use>>

InitializeMagnetometer ==
    /\ \E asa \in AsaValues, fails \in MagInitFails :
       \E s \in {initialize_magnetometer(Bus(<<>>, fails), asa)} :
         /\ regs' = s.regs
         /\ bypass_en' = s.bypass_en
         /\ mag_factory_adjust' = s.mag_factory_adjust
         /\ call' = [Call("initialize_magnetometer", 0, s.ret, s.tr)
                        EXCEPT !.raw = asa, !.in = [NoIn EXCEPT !.fails = fails]]
    /\ MagInitUnchanged

PowerDownMagnetometer ==
    /\ \E fails \in MagInitFails :
       \E s \in {power_down_magnetometer(Bus(<<>>, fails))} :
         /\ regs' = s.regs
         /\ bypass_en' = s.bypass_en
         /\ mag_factory_adjust' = s.mag_factory_adjust
         /\ call' = [Call("power_down_magnetometer", 0, s.ret, s.tr)
                        EXCEPT !.in = [NoIn EXCEPT !.fails = fails]]
    /\ MagInitUnchanged

(***************************************************************************)
(* FIFO contents the model feeds to the decoder                            *)
(***************************************************************************)
\* quaternion blocks: four big-endian 32-bit components
Q_UNITY == <<64, 0, 0, 0,  0, 0, 0, 0,  0, 0, 0, 0,  0, 0, 0, 0>>
Q_LOWBITS == <<64, 0, 255, 255,  0, 0, 255, 255,  0, 0, 0, 1,  0, 0, 128, 0>>
Q_NEG == <<192, 0, 0, 0,  0, 0, 0, 0,  0, 0, 0, 0,  0, 0, 0, 0>>
Q_MIN == <<48, 0, 0, 0,  32, 0, 0, 0,  16, 0, 0, 0,  16, 0, 0, 0>>
Q_MAX == <<64, 0, 0, 0,  16, 0, 0, 0,  0, 0, 0, 0,  0, 0, 0, 0>>
Q_BELOW == <<61, 247, 0, 0,  0, 153, 0, 0,  0, 6, 0, 0,  0, 5, 0, 0>>
Q_ABOVE == <<65, 248, 0, 0,  0, 90, 0, 0,  0, 5, 0, 0,  0, 2, 0, 0>>
Q_ZERO == <<0, 0, 0, 0,  0, 0, 0, 0,  0, 0, 0, 0,  0, 0, 0, 0>>
Q_WRAP == <<128, 0, 0, 0,  128, 0, 0, 0,  128, 0, 0, 0,  128, 0, 0, 0>>

\* accel (100, -100, 200), gyro (10, -10, 5)
AG_1 == <<0, 100, 255, 156, 0, 200,  0, 10, 255, 246, 0, 5>>
\* accel (-32768, 32767, 1), gyro (256, -1, -256)
AG_2 == <<128, 0, 127, 255, 0, 1,  1, 0, 255, 255, 255, 0>>

Bodies == {Q_UNITY \o AG_1, Q_LOWBITS \o AG_2, Q_NEG \o AG_2, Q_MIN \o AG_1,
           Q_MAX \o AG_2, Q_BELOW \o AG_1, Q_ABOVE \o AG_2, Q_ZERO \o AG_1,
           Q_WRAP \o AG_2}

\* magnetometer blocks: x, y, z little-endian and the status byte ST2
M_A == <<2, 1, 254, 255, 16, 0, 16>>
M_B == <<0, 128, 1, 0, 0, 0, 16>>
M_SAT == <<7, 0, 7, 0, 7, 0, 24>>
M_ZERO == <<0, 0, 0, 0, 0, 0, 16>>

Packets(plen) ==
    IF plen = FIFO_LEN_MAG
       THEN {M_A \o b : b \in Bodies}
            \cup {m \o b : m \in {M_B, M_SAT, M_ZERO}, b \in {Q_UNITY \o AG_1, Q_MAX \o AG_2, Q_ZERO \o AG_1}}
       ELSE Bodies

\* packets that precede the newest one when two are in the FIFO
Stale(plen) ==
    IF plen = FIFO_LEN_MAG
       THEN {M_B \o Q_MIN \o AG_2, M_SAT \o Q_ZERO \o AG_2}
       ELSE {Q_MIN \o AG_2, Q_ZERO \o AG_2}

Trig == {[eul |-> <<0, 0, 0>>, nan |-> FALSE, magyaw |-> 2],
         [eul |-> <<1, -2, 3>>, nan |-> FALSE, magyaw |-> 0 - PI],
         [eul |-> <<0, 1, 0 - PI>>, nan |-> FALSE, magyaw |-> PI],
         [eul |-> <<1, -2, 3>>, nan |-> TRUE, magyaw |-> 0]}

In(fails, short, c1, c2, pk1, pk2, tg) ==
    [fails |-> fails, short |-> short, count1 |-> c1, count2 |-> c2, pk1 |-> pk1,
     pk2 |-> pk2, wide |-> FALSE, eul |-> tg.eul, nan |-> tg.nan, magyaw |-> tg.magyaw]

\* the inputs of the decoder for a packet length: bus errors, overfull,
\* partial and aligned counts, one or two packets
FifoInputs(plen, Pk, St, Tg) ==
    LET p0 == IF plen = FIFO_LEN_MAG THEN M_A \o Q_UNITY \o AG_1 ELSE Q_UNITY \o AG_1
        s0 == IF plen = FIFO_LEN_MAG THEN M_B \o Q_MIN \o AG_2 ELSE Q_MIN \o AG_2
        t0 == [eul |-> <<0, 0, 0>>, nan |-> FALSE, magyaw |-> 2]
    IN {In({1}, {}, plen, plen, s0, p0, t0)}
       \cup {In(f, {}, c, c, s0, p0, t0) :
                f \in {{}, {2}, {6}}, c \in {2 * plen + 1, 3 * plen}}
       \cup {In(f, {}, c1, c2, s0, p0, t0) :
                f \in {{}, {2}, {3}}, c1 \in {0, plen + 7},
                c2 \in {0, plen + 7, 2 * plen + 1}}
       \cup {In({}, {}, c1, c2, s0, p0, t0) :
                c1 \in {0, plen + 7}, c2 \in {plen, 2 * plen}}
       \cup {In({}, {}, plen, plen, s0, p, t0) : p \in Pk}
       \cup {In({}, {}, plen, plen, s0, p0, t) : t \in Tg}
       \cup {[In({}, {}, plen, plen, s0, p, t0) EXCEPT !.wide = TRUE] : p \in Pk}
       \cup {In({}, {}, 2 * plen, 2 * plen, s1, p, t0) : s1 \in St, p \in Pk}
       \cup {In(f, sh, c, c, s0, p0, t0) :
                f \in {{}, {2}, {2, 3}}, sh \in {{}, {2}, {3}}, c \in {plen, 2 * plen}}

PlenOr28 == IF packet_len = FIFO_LEN_MAG THEN FIFO_LEN_MAG ELSE FIFO_LEN_NO_MAG

AllInputs == FifoInputs(PlenOr28, Packets(PlenOr28), Stale(PlenOr28), Trig)

\* the count read fails
BusErrorInput ==
    In({1}, {}, 0, 0, Q_ZERO \o AG_1, Q_ZERO \o AG_1,
       [eul |-> <<0, 0, 0>>, nan |-> FALSE, magyaw |-> 2])

\* the decoder inputs of the whole-system specification: one packet that is
\* accepted, one that is rejected, an overfull FIFO, a bus error
FewInputs ==
    LET t0 == [eul |-> <<0, 0, 0>>, nan |-> FALSE, magyaw |-> 2]
        p0 == IF PlenOr28 = FIFO_LEN_MAG THEN M_A \o Q_UNITY \o AG_1 ELSE Q_UNITY \o AG_1
        p1 == IF PlenOr28 = FIFO_LEN_MAG THEN M_SAT \o Q_ZERO \o AG_1 ELSE Q_ZERO \o AG_1
    IN {In({}, {}, PlenOr28, PlenOr28, p1, p0, t0),
        In({}, {}, PlenOr28, PlenOr28, p0, p1, t0),
        In({}, {}, 3 * PlenOr28, 0, p0, p0, t0),
        BusErrorInput}

(***************************************************************************)
(* The sampler thread imu_interrupt_handler, one action per step           *)
(***************************************************************************)
\* gpio_fd_open and the FIFO reset before the loop
SamplerStart(t) ==
    /\ thr[t].pc = "start"
    /\ \E fd_ok \in BOOLEAN, fails \in {{}, {3}} :
         IF ~fd_ok
            THEN /\ thr' = [thr EXCEPT ![t].pc = "done"]
                 /\ call' = Call("sampler_start", t, -1, <<>>)
                 /\ UNCHANGED regs
            ELSE LET s == mpu_reset_fifo(Bus(<<>>, fails))
                 IN /\ thr' = [thr EXCEPT ![t].pc = "loop"]
                    /\ regs' = s.regs
                    /\ call' = Call("sampler_start", t, s.ret, s.tr)
    /\ UNCHANGED <<store, config, dmp_en, bypass_en, packet_len, data_ptr, interrupt_running,
                   imu_interrupt_func, imu_interrupt_thread, shutdown_interrupt_thread,
                   last_read_successful, fifo_first_run, fusion, mag_factory_adjust,
                   mag_offsets, mag_scales, data, in_use, state, caller>>

\* the loop condition; the thread closes the gpio and returns when it fails
LoopConditionStateOnly == state # "EXITING"
LoopCondition == state # "EXITING" /\ shutdown_interrupt_thread # 1

SamplerLoop(t) ==
    /\ thr[t].pc = "loop"
    /\ thr' = [thr EXCEPT ![t].pc = IF LoopCondition THEN "poll" ELSE "done"]
    /\ call' = Call("sampler_loop", t, 0, <<>>)
    /\ UNCHANGED <<store, config, dmp_en, bypass_en, packet_len, data_ptr, interrupt_running,
                   imu_interrupt_func, imu_interrupt_thread, shutdown_interrupt_thread,
                   last_read_successful, fifo_first_run, fusion, mag_factory_adjust,
                   mag_offsets, mag_scales, data, in_use, regs, state, caller>>

\* poll returns by the timeout, or with the edge: the timestamp is taken, the
\* in-use flag is read (a warning when set) and the bus claimed anyway.
\* A sampler sees at most MaxEdges edges.
SamplerPoll(t) ==
    /\ thr[t].pc = "poll"
    /\ \E edge \in {e \in BOOLEAN : e => thr[t].edges < MaxEdges} :
         IF edge
            THEN /\ thr' = [thr EXCEPT ![t].pc = "decode",
                                       ![t].edges = @ + 1,
                                       ![t].cbs = 0]
                 /\ in_use' = TRUE
                 /\ call' = Call("sampler_poll", t, 1,
                                 <<Ev("gpio", "edge", {}, 0), Ev("clock", "timestamp", {}, 0)>>
                                 \o (IF in_use THEN <<Ev("warn", "bus claimed", {}, 0)>>
                                               ELSE <<>>)
                                 \o <<Ev("bus", "claim", {}, 0)>>)
            ELSE /\ thr' = [thr EXCEPT ![t].pc = "loop"]
                 /\ call' = Call("sampler_poll", t, 0, <<>>)
                 /\ UNCHANGED in_use
    /\ UNCHANGED <<store, config, dmp_en, bypass_en, packet_len, data_ptr, interrupt_running,
                   imu_interrupt_func, imu_interrupt_thread, shutdown_interrupt_thread,
                   last_read_successful, fifo_first_run, fusion, mag_factory_adjust,
                   mag_offsets, mag_scales, data, regs, state, caller>>

\* ret = read_dmp_fifo()
SamplerDecode(t, Ins) ==
    /\ thr[t].pc = "decode"
    /\ \E in \in Ins :
         \E r \in {read_dmp_fifo(in)} :
            /\ data' = r.data
            /\ mag_scales' = r.mag_scales
            /\ fusion' = r.fusion
            /\ fifo_first_run' = r.fifo_first_run
            /\ regs' = r.s.regs
            /\ thr' = [thr EXCEPT ![t].pc = "finish", ![t].ret = r.ret]
            /\ call' = [Call("read_dmp_fifo", t, r.ret, r.s.tr)
                           EXCEPT !.i = r.i, !.raw = r.raw, !.in = in]
    /\ UNCHANGED <<store, config, dmp_en, bypass_en, packet_len, data_ptr, interrupt_running,
                   imu_interrupt_func, imu_interrupt_thread, shutdown_interrupt_thread,
                   last_read_successful, mag_factory_adjust, mag_offsets, in_use,
                   state, caller>>

\* the bus is released and the result of the attempt recorded; then the first
\* edge only clears first_run, and a later edge calls the user function when
\* interrupt_running is set.  ret is 1 when the function was called.
CallbackDueAlways(first_run, running) == running # 0
CallbackDueAfterFirst(first_run, running) == first_run # 1
CallbackDue(first_run, running) == first_run # 1 /\ running # 0

\* the flag was_last_read_successful returns, from the result of the decode
ReadSuccessfulAlways(ret) == 1
ReadSuccessful(ret) == IF ret = 0 THEN 1 ELSE 0

\* what the sampler does after the decoder has returned
FinishTraceRecordFirst(called, fn) ==
    <<Ev("record", "last_read_successful", {}, 0), Ev("bus", "release", {}, 0)>>
    \o (IF called THEN <<Ev("fn", fn, {}, 0)>> ELSE <<>>)
FinishTrace(called, fn) ==
    <<Ev("bus", "release", {}, 0), Ev("record", "last_read_successful", {}, 0)>>
    \o (IF called THEN <<Ev("fn", fn, {}, 0)>> ELSE <<>>)

SamplerFinish(t) ==
    /\ thr[t].pc = "finish"
    /\ in_use' = FALSE
    /\ last_read_successful' = ReadSuccessful(thr[t].ret)
    /\ LET called == CallbackDue(thr[t].first_run, interrupt_running)
       IN /\ thr' = [thr EXCEPT ![t].pc = "loop",
                                ![t].first_run = 0,
                                ![t].cbs = IF called THEN @ + 1 ELSE @]
          /\ call' = Call("sampler_finish", t, IF called THEN 1 ELSE 0,
                          FinishTrace(called, imu_interrupt_func))
    /\ UNCHANGED <<store, config, dmp_en, bypass_en, packet_len, data_ptr, interrupt_running,
                   imu_interrupt_func, imu_interrupt_thread, shutdown_interrupt_thread,
                   fifo_first_run, fusion, mag_factory_adjust, mag_offsets, mag_scales,
                   data, regs, state, caller>>

Sampler(t, Ins) ==
    \/ SamplerStart(t)
    \/ SamplerLoop(t)
    \/ SamplerPoll(t)
    \/ SamplerDecode(t, Ins)
    \/ SamplerFinish(t)

(***************************************************************************)
(* read_dmp_fifo called by the application itself, before there is a       *)
(* sampler                                                                 *)
(***************************************************************************)
ReadDmpFifo ==
    /\ caller = "idle"
    /\ imu_interrupt_thread = 0
    /\ \E in \in FewInputs :
         \E r \in {read_dmp_fifo(in)} :
            /\ data' = r.data
            /\ mag_scales' = r.mag_scales
            /\ fusion' = r.fusion
            /\ fifo_first_run' = r.fifo_first_run
            /\ regs' = r.s.regs
            /\ call' = [Call("read_dmp_fifo", 0, r.ret, r.s.tr)
                           EXCEPT !.i = r.i, !.raw = r.raw, !.in = in]
    /\ UNCHANGED <<store, config, dmp_en, bypass_en, packet_len, data_ptr, interrupt_running,
                   imu_interrupt_func, imu_interrupt_thread, shutdown_interrupt_thread,
                   last_read_successful, mag_factory_adjust, mag_offsets, in_use,
                   state, thr, caller>>

(***************************************************************************)
(* Specifications                                                          *)
(***************************************************************************)
SysConfs ==
    {c \in Confs : \/ c.dmp_sample_rate = 200 /\ c.enable_magnetometer = 1
                      /\ c.orientation = ORIENTATION_Z_UP /\ c.show_warnings = 1
                   \/ c.dmp_sample_rate = 30 /\ c.enable_magnetometer = 0
                      /\ c.orientation = ORIENTATION_Y_DOWN /\ c.show_warnings = 0}

SysEnvs == {GoodEnv, [GoodEnv EXCEPT !.whoami = 0], [GoodEnv EXCEPT !.fails = {MaxBusOps \div 2}]}

\* the driver with its application thread and its sampler threads
Next ==
    \/ InitializeImuDmp(SysConfs, SysEnvs)
    \/ PowerOffImu
    \/ PowerOffJoin
    \/ SetImuInterruptFunc
    \/ StopImuInterruptFunc
    \/ SetStateExiting
    \/ \E t \in Threads : Sampler(t, FewInputs)

Spec == Init /\ [][Next]_vars

\* the part of the driver that registers, stops and invokes the callback
NextCallback ==
    \/ InitializeImuDmp(SysConfs, SysEnvs)
    \/ SetImuInterruptFunc
    \/ StopImuInterruptFunc
    \/ \E t \in Threads : Sampler(t, FewInputs)

SpecCallback == Init /\ [][NextCallback]_vars

\* the part of the driver that starts and stops the samplers
NextShutdown ==
    \/ InitializeImuDmp(SysConfs, SysEnvs)
    \/ PowerOffImu
    \/ PowerOffJoin
    \/ SetStateExiting
    \/ \E t \in Threads : Sampler(t, FewInputs)

\* A sampler is a thread of its own: the scheduler runs it, poll returns
\* within its timeout, the bus transfers end, and the user function is
\* assumed to return.  The decode is enabled exactly when the sampler is at
\* it, whatever the FIFO holds, and every decode leaves that position, so
\* the fairness of the decode of one input is the fairness of the decode.
SpecShutdown ==
    /\ Init
    /\ [][NextShutdown]_vars
    /\ \A t \in Threads : WF_vars(Sampler(t, {BusErrorInput}))

\* one bring-up that succeeds, then the sampler decoding arbitrary FIFO contents
FifoConfs == {c \in Confs : c.dmp_sample_rate = 200 /\ c.orientation = ORIENTATION_Z_UP}

BringUp == imu_interrupt_thread = 0 /\ InitializeImuDmp(FifoConfs, {GoodEnv})

NextFifo ==
    \/ BringUp
    \/ \E t \in Threads : Sampler(t, AllInputs)

SpecFifo == Init /\ [][NextFifo]_vars

\* the bring-up with every configuration and every environment, called on the
\* freshly loaded library and once more after a bring-up that went through
\* without an error
RefConf == CHOOSE c \in FifoConfs : c.enable_magnetometer = 1 /\ c.show_warnings = 1

NextInit ==
    /\ \/ call.op = "none"
       \/ call.ret = 0 /\ call.arg = RefConf /\ call.in.fails = {}
    /\ InitializeImuDmp(Confs, InitEnvs)

SpecInit == Init /\ [][NextInit]_vars

\* the DMP memory functions alone: a call on the device as it is after reset,
\* or after a complete upload
MemReady ==
    \/ call.op = "none"
    \/ call.op = "dmp_load_motion_driver_firmware" /\ call.ret = 0

NextMem ==
    \/ MemReady /\ MpuWriteMem
    \/ MemReady /\ MpuReadMem
    \/ MemReady /\ DmpLoadMotionDriverFirmware

SpecMem == Init /\ [][NextMem]_vars

\* the gyro calibration, called again and again by a calibration program
NextGyro == CalibrateGyroRoutine

SpecGyro == Init /\ [][NextGyro]_vars

\* the magnetometer calibration, called again and again by a calibration
\* program
NextMag == CalibrateMagRoutine

SpecMag == Init /\ [][NextMag]_vars

\* the bring-up with each of the six mounting orientations and with two
\* selectors that are none of them, in every environment
OrientConfs == {[RefConf EXCEPT !.orientation = o, !.enable_magnetometer = m] :
                   o \in Orientations \cup {0, 137}, m \in {0, 1}}

NextOrient ==
    /\ \/ call.op = "none"
       \/ call.ret = 0 /\ call.in.fails = {}
    /\ InitializeImuDmp(OrientConfs, InitEnvs)

SpecOrient == Init /\ [][NextOrient]_vars

\* the magnetometer set up or powered down, again and again
NextMagInit ==
    \/ InitializeMagnetometer
    \/ PowerDownMagnetometer

SpecMagInit == Init /\ [][NextMagInit]_vars

\* a magnetometer calibration file written or not, then one bring-up with the
\* magnetometer enabled, then the sampler
MagBringUp == imu_interrupt_thread = 0 /\ InitializeImuDmp({RefConf}, {GoodEnv})

NextMagFile ==
    \/ imu_interrupt_thread = 0 /\ WriteMagCalToDisk
    \/ MagBringUp
    \/ \E t \in Threads : Sampler(t, FewInputs)

SpecMagFile == Init /\ [][NextMagFile]_vars

\* bring-ups that fail early, fail late or go through, the decoder called by
\* the application before the first that goes through, and by the sampler
\* after it
GuardEnvs == {GoodEnv, [GoodEnv EXCEPT !.whoami = 0], [GoodEnv EXCEPT !.corrupt = {0}],
              [GoodEnv EXCEPT !.fails = {MaxBusOps \div 2}]}

GuardBringUp == imu_interrupt_thread = 0 /\ InitializeImuDmp(FifoConfs, GuardEnvs)

NextGuard ==
    \/ GuardBringUp
    \/ ReadDmpFifo
    \/ \E t \in Threads : Sampler(t, FewInputs)

SpecGuard == Init /\ [][NextGuard]_vars

\* the calibration files written and read back
NextStore ==
    \/ WriteGyroOffsetsToDisk
    \/ LoadGyroOffets
    \/ WriteMagCalToDisk
    \/ LoadMagCalibration

SpecStore == Init /\ [][NextStore]_vars

(***************************************************************************)
(* data_fusion applied to DMP yaws and compass yaws of the whole circle    *)
(***************************************************************************)
\* yaws from -PI to PI, both ends included
YawValues == {0 - PI, -5, -1, 0, 2, 4, PI}

\* a bring-up with the magnetometer at each rate of Rates; the accepted ones
\* build the driver
FusionConfs == {c \in Confs : c.enable_magnetometer = 1 /\ c.show_warnings = 0
                              /\ c.orientation = ORIENTATION_Z_UP}

FusionBringUp == imu_interrupt_thread = 0 /\ InitializeImuDmp(FusionConfs, {GoodEnv})

\* the call of data_fusion at the end of a decode that brought a magnetometer
\* reading: dmp_TaitBryan holds the yaw of the packet
DataFusion ==
    /\ dmp_en = 1
    /\ \E yaw \in YawValues, magyaw \in YawValues, nan \in BOOLEAN :
       \E in \in {[NoIn EXCEPT !.eul = <<0, 0, yaw>>, !.nan = nan, !.magyaw = magyaw]} :
       \E r \in {data_fusion([data EXCEPT !.dmp_TaitBryan = in.eul], config, fusion, in)} :
         /\ data' = r.data
         /\ fusion' = r.fusion
         /\ call' = [Call("data_fusion", 0, r.ret, <<>>) EXCEPT !.in = in]
    /\ UNCHANGED <<store, config, dmp_en, bypass_en, packet_len, data_ptr,
                   interrupt_running, imu_interrupt_func, imu_interrupt_thread,
                   shutdown_interrupt_thread, last_read_successful, fifo_first_run,
                   mag_factory_adjust, mag_offsets, mag_scales, in_use, regs, state,
                   thr, caller>>

NextFusion ==
    \/ FusionBringUp
    \/ DataFusion

SpecFusion == Init /\ [][NextFusion]_vars

\* one bring-up, then an application that registers one of two callbacks and
\* stops the callback while the sampler handles edges
UserFuncs == {"user", "other"}

NextStop ==
    \/ BringUp
    \/ SetImuInterruptFuncOf(UserFuncs)
    \/ StopImuInterruptFunc
    \/ \E t \in Threads : Sampler(t, FewInputs)

SpecStop == Init /\ [][NextStop]_vars

\* an application that uses the barometer alone
NextBaro ==
    \/ InitializeBarometer
    \/ ReadBarometer

SpecBaro == Init /\ [][NextBaro]_vars

\* an application that reads the barometer while a sampler handles edges
NextBus ==
    \/ BringUp
    \/ ReadBarometer
    \/ \E t \in Threads : Sampler(t, FewInputs)

SpecBus == Init /\ [][NextBus]_vars

\* one bring-up and one sampler, powered off at any moment and never brought
\* up again.  The sampler is scheduled as in SpecShutdown.
NextPowerOff ==
    \/ BringUp
    \/ PowerOffImu
    \/ PowerOffJoin
    \/ \E t \in Threads : Sampler(t, FewInputs)

SpecPowerOff ==
    /\ Init
    /\ [][NextPowerOff]_vars
    /\ \A t \in Threads : WF_vars(Sampler(t, {BusErrorInput}))

(***************************************************************************)
(* Properties of the FIFO decoder, checked under SpecFifo.  A decode step  *)
(* leaves its record in call: the inputs (in), the buffer read (raw, empty *)
(* when no complete buffer was read), the offset i, the trace of the bus   *)
(* transfers and the result.                                               *)
(***************************************************************************)
DecodeCall == call.op = "read_dmp_fifo"

\* the offset of the quaternion within a packet
QuatOffset == IF packet_len = FIFO_LEN_MAG THEN 7 ELSE 0

FifoDataReads == CountEv(call.trace, "rd", "FIFO_R_W")
FifoCountReads == CountEv(call.trace, "rd", "FIFO_COUNTH")
FifoResets == CountEv(call.trace, "fn", "mpu_reset_fifo")

\* C1: whenever read_dmp_fifo returns failure, every field of the caller's
\* sample has the value it had before the call
C1_FailureKeepsSample ==
    [][(call'.op = "read_dmp_fifo" /\ call'.ret # 0) => data' = data]_vars

\* the top 16 bits of the four big-endian components at offset off, signed
Top16(raw, off) == [k \in 1..4 |-> S16(B(raw, off + 4 * (k - 1)), B(raw, off + 4 * (k - 1) + 1))]

\* the squared magnitude lies in [2^28 - 2^24, 2^28 + 2^24]; the sum is
\* cut off one above the upper end
InTolerance(q) ==
    LET cap == 268435456 + 16777216 + 1
        cut(x) == IF x > cap THEN cap ELSE x
        m == cut(cut(cut(cut(q[1] * q[1]) + q[2] * q[2]) + q[3] * q[3]) + q[4] * q[4])
    IN 268435456 - 16777216 <= m /\ m <= 268435456 + 16777216

\* C2: a packet that was read completely is accepted exactly when the squared
\* magnitude of the top 16 bits of its quaternion components is within the
\* tolerance of 2^28
C2_AcceptedIffInTolerance ==
    (DecodeCall /\ call.raw # <<>>)
        => (call.ret = 0 <=> InTolerance(Top16(call.raw, call.i + QuatOffset)))

\* the quaternion (1<<30, 0, 0, 0) was decoded with success
C2_UnityAccepted ==
    /\ DecodeCall /\ call.raw # <<>> /\ call.ret = 0
    /\ SubSeq(call.raw, call.i + QuatOffset + 1, call.i + QuatOffset + 16) = Q_UNITY
    /\ data.dmp_quat = <<1000, 0, 0, 0>>
    /\ data.dmp_TaitBryan = <<0, 0, 0>>

OverfullOutcome == call.ret = -1 /\ FifoResets = 1 /\ FifoDataReads = 0

\* C3 as amended: when the first count read of an invocation is above
\* 2*packet_len, the FIFO and DMP are reset, the call fails and no FIFO data
\* is read
C3_FirstCountOverfull ==
    (DecodeCall /\ 1 \notin call.in.fails /\ call.in.count1 > 2 * packet_len)
        => OverfullOutcome

\* C3: whenever a count that read_dmp_fifo observes, at the first read or at
\* the re-read, is above 2*packet_len, the FIFO and DMP are reset, the call
\* fails and no FIFO data is read
C3_AnyCountOverfull ==
    /\ C3_FirstCountOverfull
    /\ (/\ DecodeCall /\ 1 \notin call.in.fails /\ 2 \notin call.in.fails
        /\ call.in.count1 # packet_len /\ call.in.count1 < 2 * packet_len
        /\ call.in.count2 > 2 * packet_len)
          => OverfullOutcome

\* a count of 3*packet_len was observed and the call failed after a reset
C3_TripleCount ==
    /\ DecodeCall /\ 1 \notin call.in.fails /\ call.in.count1 = 3 * packet_len
    /\ OverfullOutcome

\* C4: a successful decode of one packet starts at offset 0, one of two
\* packets at offset packet_len; the sample is what the newest packet alone
\* decodes to, and its raw values are that packet's bytes
C4_DecodesNewestOnly ==
    [][(call'.op = "read_dmp_fifo" /\ call'.ret = 0) =>
          LET raw == call'.raw
              newest == SubSeq(raw, Len(raw) - packet_len + 1, Len(raw))
              alone == DecodePacket(data, mag_scales, fusion, newest, 0, call'.in)
          IN /\ Len(raw) \in {packet_len, 2 * packet_len}
             /\ call'.i = Len(raw) - packet_len
             /\ data' = alone.data
             /\ data'.raw_accel = Parse3(newest, QuatOffset + 16)
             /\ data'.raw_gyro = Parse3(newest, QuatOffset + 22)]_vars

\* two packets were in the FIFO, the stale one different from the newest, and
\* the decode succeeded
C4_TwoPackets ==
    /\ DecodeCall /\ call.ret = 0 /\ packet_len \in {FIFO_LEN_NO_MAG, FIFO_LEN_MAG}
    /\ Len(call.raw) = 2 * packet_len /\ call.i = packet_len
    /\ SubSeq(call.raw, 1, packet_len) # SubSeq(call.raw, packet_len + 1, 2 * packet_len)
    /\ data.raw_accel = Parse3(call.raw, packet_len + QuatOffset + 16)
    /\ data.raw_accel # Parse3(call.raw, QuatOffset + 16)

\* C5: a first count that is neither packet_len nor 2*packet_len nor above
\* 2*packet_len is followed by one wait and one more count read; a re-read
\* count that is still neither of the two totals fails the call without a
\* FIFO data read, one of the two totals is followed by the data read; no
\* invocation reads the count more than twice
C5_OneRetry ==
    DecodeCall =>
       /\ FifoCountReads <= 2
       /\ (/\ 1 \notin call.in.fails
           /\ call.in.count1 \notin {packet_len, 2 * packet_len}
           /\ ~(call.in.count1 > 2 * packet_len))
            => /\ CountEv(call.trace, "usleep", "2500") = 1
               /\ FifoCountReads = 2
               /\ (2 \notin call.in.fails
                   /\ call.in.count2 \notin {packet_len, 2 * packet_len})
                    => (call.ret = -1 /\ FifoDataReads = 0)
               /\ (2 \notin call.in.fails
                   /\ call.in.count2 \in {packet_len, 2 * packet_len})
                    => FifoDataReads >= 1

\* a partial first count, a valid count at the re-read, and a successful decode
C5_RetryThenDecode ==
    /\ DecodeCall /\ call.in.fails = {}
    /\ call.in.count1 \notin {packet_len, 2 * packet_len}
    /\ call.in.count1 < 2 * packet_len
    /\ call.in.count2 = packet_len
    /\ FifoCountReads = 2 /\ call.ret = 0

\* the count read_dmp_fifo read was short, and short or odd again at the
\* re-read
StillMisaligned ==
    /\ call.op = "read_dmp_fifo"
    /\ dmp_en # 0
    /\ 1 \notin call.in.fails /\ 2 \notin call.in.fails
    /\ NeedsRetry(call.in.count1)
    /\ call.in.count2 \notin {packet_len, 2 * packet_len}

SaturatedPacket ==
    /\ DecodeCall /\ call.raw # <<>>
    /\ packet_len = FIFO_LEN_MAG
    /\ (B(call.raw, call.i + 6) \div 8) % 2 = 1

\* C31: a packet whose magnetometer block is saturated leaves the magnetometer
\* reading, the compass heading and the fused angles as they were; when its
\* quaternion is accepted the call succeeds with the quaternion taken 7 bytes
\* into the packet and the accelerometer and gyroscope after it
C31_SaturatedKeepsMag ==
    [][SaturatedPacket'
          => /\ data'.mag = data.mag
             /\ data'.compass_heading = data.compass_heading
             /\ data'.fused_TaitBryan = data.fused_TaitBryan
             /\ fusion' = fusion
             /\ call'.ret = 0 <=> InTolerance(Top16(call'.raw, call'.i + 7))
             /\ call'.ret = 0
                => /\ data'.dmp_quat
                        = normalizeQuaternion(ParseQuat(call'.raw, call'.i + 7))
                   /\ data'.raw_accel = Parse3(call'.raw, call'.i + 23)
                   /\ data'.raw_gyro = Parse3(call'.raw, call'.i + 29)
                   /\ data'.accel = [k \in 1..3 |-> data'.raw_accel[k] * data.accel_to_ms2]
                   /\ data'.gyro = [k \in 1..3 |-> data'.raw_gyro[k] * data.gyro_to_degs]]_vars

\* a saturated packet was decoded with success after a packet whose
\* magnetometer reading is still in the sample
C31_SaturatedAfterReading ==
    /\ SaturatedPacket /\ call.ret = 0
    /\ data.mag # <<0, 0, 0>>
    /\ data.raw_accel = <<-32768, 32767, 1>>
    /\ data.raw_gyro = <<256, -1, -256>>

\* the packet decoded by the step has a magnetometer block that is not
\* saturated and not all zero
NewMagData ==
    /\ DecodeCall /\ call.raw # <<>>
    /\ packet_len = FIFO_LEN_MAG
    /\ (B(call.raw, call.i + 6) \div 8) % 2 = 0
    /\ \E k \in 0..5 : B(call.raw, call.i + k) # 0

\* the positions of the calls of data_fusion in the trace of the step
FusionCalls == {j \in 1..Len(call.trace) :
                   call.trace[j].k = "fn" /\ call.trace[j].r = "data_fusion"}

\* C32: a decode calls data_fusion exactly when the packet has new
\* magnetometer data and its quaternion is accepted, once, after the last bus
\* transfer and with the accelerometer and gyroscope of the packet in the
\* sample; the call then returns success
C32_FusionIffNewMag ==
    DecodeCall =>
       /\ (FusionCalls # {}) <=> (NewMagData /\ InTolerance(Top16(call.raw, call.i + 7)))
       /\ FusionCalls # {}
          => /\ FusionCalls = {Len(call.trace)}
             /\ call.ret = 0
             /\ data.raw_accel = Parse3(call.raw, call.i + 23)
             /\ data.raw_gyro = Parse3(call.raw, call.i + 29)
             /\ fusion.lastDMPYaw = data.dmp_TaitBryan[3]

\* data_fusion ran on a packet with a magnetometer reading and gave a heading
C32_FusionRan ==
    /\ DecodeCall /\ NewMagData /\ call.ret = 0
    /\ FusionCalls # {}
    /\ data.compass_heading = 2
    /\ fusion.first_run = 0

(***************************************************************************)
(* Properties of the sampler thread                                        *)
(***************************************************************************)
\* the sampler t returns from the handling of an edge to its loop
EdgeHandled(t) == thr[t].pc = "finish" /\ thr'[t].pc = "loop"

\* C6 as amended: the first edge a sampler receives invokes no callback; a
\* later edge invokes the registered function exactly once before the sampler
\* waits again when interrupt_running is set, and not at all when it has been
\* cleared by stop_imu_interrupt_func
C6_CallbackWhenRunning ==
    [][\A t \in Threads :
          /\ EdgeHandled(t)
               => thr'[t].cbs = (IF thr[t].edges >= 2 /\ interrupt_running # 0 THEN 1 ELSE 0)
          /\ (~EdgeHandled(t) /\ thr'[t].edges = thr[t].edges)
               => thr'[t].cbs = thr[t].cbs]_vars

\* C6: the first edge a sampler receives invokes no callback, and every later
\* edge invokes the registered function exactly once before the sampler
\* waits again
C6_CallbackEveryEdge ==
    [][\A t \in Threads :
          EdgeHandled(t) => thr'[t].cbs = (IF thr[t].edges >= 2 THEN 1 ELSE 0)]_vars

\* a sampler has handled its second edge and called the function once
C6_SecondEdgeCallback ==
    \E t \in Threads :
       /\ call.op = "sampler_finish" /\ call.t = t /\ call.ret = 1
       /\ thr[t].pc = "loop" /\ thr[t].edges = 2 /\ thr[t].cbs = 1

\* a shutdown has been requested of the running sampler t
ShutdownRequested(t) ==
    /\ thr[t].pc \notin {"none", "done"}
    /\ shutdown_interrupt_thread = 1 \/ state = "EXITING"

\* C7: once the shutdown flag is set by power_off_imu or the lifecycle state
\* is EXITING, a running sampler leaves its loop and terminates
C7_SamplerTerminates ==
    \A t \in Threads : ShutdownRequested(t) ~> (thr[t].pc = "done")

(***************************************************************************)
(* Properties of the bring-up, checked under SpecInit.  A call leaves in   *)
(* call its configuration (arg), the ordinals of the bus transfers that    *)
(* the environment fails (in.fails), its trace and its result.             *)
(***************************************************************************)
InitCall == call.op = "initialize_imu_dmp"

\* a bus transfer of the call failed; every transfer of the bring-up comes
\* after the claim of the bus
BusFault == \E k \in call.in.fails : k <= BusN(call.trace)

\* C8: a bring-up in which a step fails after the bus has been claimed
\* returns failure, with the in-use flag cleared and no sampler started
C8_FailedStepAborts ==
    [][(call'.op = "initialize_imu_dmp" /\ BusFault')
          => (call'.ret = -1 /\ in_use' = FALSE /\ thr' = thr)]_vars

\* the rates the device supports that divide 200
ValidRates == {r \in DMP_MIN_RATE..DMP_MAX_RATE : \E k \in 1..DMP_MAX_RATE : k * r = 200}

\* C9: a bring-up called with a rate that is out of range or does not divide
\* 200 returns the error without any GPIO or bus access and leaves every
\* variable of the driver as it was
C9_InvalidRateRejected ==
    [][(call'.op = "initialize_imu_dmp" /\ call'.arg.dmp_sample_rate \notin ValidRates)
          => /\ call'.ret = -1
             /\ call'.trace = <<>>
             /\ UNCHANGED <<store, config, dmp_en, bypass_en, packet_len, data_ptr,
                            interrupt_running, imu_interrupt_func, imu_interrupt_thread,
                            shutdown_interrupt_thread, last_read_successful,
                            fifo_first_run, fusion, mag_factory_adjust, mag_offsets,
                            mag_scales, data, in_use, regs, state, thr, caller>>]_vars

\* a rate that does not divide 200 was rejected by a call that followed a
\* bring-up: the driver is still configured and its sampler still there
C9_RejectedAfterBringUp ==
    /\ InitCall /\ call.ret = -1 /\ call.trace = <<>>
    /\ call.arg.dmp_sample_rate = 30
    /\ dmp_en = 1 /\ config = RefConf /\ imu_interrupt_thread # 0

\* the values the call wrote to the sample-rate divider register
DividerWrites ==
    {call.trace[j].n : j \in {i \in 1..Len(call.trace) :
                                call.trace[i].k = "wr" /\ call.trace[i].r = "SMPLRT_DIV"}}

\* C10 as amended: the divider a bring-up writes to the sample-rate divider
\* register is 1000/r - 1, and a bring-up without a bus error leaves the
\* register at that value
C10_DividerOfKilohertz ==
    InitCall =>
       /\ DividerWrites \subseteq {(1000 \div call.arg.dmp_sample_rate) - 1}
       /\ (call.ret = 0 /\ ~BusFault)
            => /\ DividerWrites # {}
               /\ regs["SMPLRT_DIV"].n = (1000 \div call.arg.dmp_sample_rate) - 1

\* C10: the divider a bring-up writes to the sample-rate divider register is
\* 200/r - 1
C10_DividerOfMaxRate ==
    InitCall => DividerWrites \subseteq {(200 \div call.arg.dmp_sample_rate) - 1}

\* a bring-up at 50 Hz went through and the register holds 19
C10_FiftyHertz ==
    /\ InitCall /\ call.ret = 0 /\ ~BusFault
    /\ call.arg.dmp_sample_rate = 50
    /\ DividerWrites = {19}
    /\ regs["SMPLRT_DIV"].n = 19


\* the call found no gyro calibration file
NoCalibrationFile == CountEv(call.trace, "warn", "no gyro calibration") > 0

\* C11: a bring-up that finds no gyro calibration file, and meets no other
\* fault, goes on and succeeds
C11_MissingFileIsWarning ==
    (InitCall /\ NoCalibrationFile /\ ~BusFault) => call.ret = 0


\* the identity register was read and held a value other than the expected
IdentityMismatch ==
    \E j \in 1..Len(call.trace) :
       /\ call.trace[j].k = "rd" /\ call.trace[j].r = "WHO_AM_I"
       /\ call.trace[j].n # 113
       /\ 1 \notin call.in.fails

\* C12: a bring-up that reads a wrong identity fails without writing anything
\* to the device (no calibration, configuration or firmware), and starts no
\* sampler
C12_WrongIdentityAborts ==
    [][(call'.op = "initialize_imu_dmp" /\ IdentityMismatch')
          => /\ call'.ret = -1
             /\ \A j \in 1..Len(call'.trace) : call'.trace[j].k # "wr"
             /\ regs' = regs
             /\ thr' = thr
             /\ imu_interrupt_thread' = imu_interrupt_thread]_vars

\* a wrong identity was read by a call that followed a bring-up
C12_WrongIdentitySeen ==
    /\ InitCall /\ IdentityMismatch /\ call.ret = -1
    /\ imu_interrupt_thread # 0


\* C25: a bring-up of the freshly loaded driver that returns failure leaves
\* the DMP flag, the stored configuration, the sample pointer and the packet
\* length as they are in a driver that was never configured
C25_FailureLeavesUnconfigured ==
    [][(call.op = "none" /\ call'.op = "initialize_imu_dmp" /\ call'.ret = -1)
          => /\ dmp_en' = 0
             /\ config' = ZeroConfig
             /\ data_ptr' = 0
             /\ packet_len' = 0]_vars

\* the position in the trace of the call of mpu_set_dmp_state, 0 when it was
\* not reached
DmpStateAt ==
    IF CountEv(call.trace, "fn", "mpu_set_dmp_state") = 0 THEN 0
    ELSE CHOOSE j \in 1..Len(call.trace) :
            call.trace[j].k = "fn" /\ call.trace[j].r = "mpu_set_dmp_state"

\* the register and the flags written by the event j places after that call
DmpStateWrite(j) ==
    LET e == call.trace[DmpStateAt + j]
    IN <<e.k, e.r, e.f>>

\* the FIFO resets from that call on
DmpStateResets ==
    {j \in DmpStateAt..Len(call.trace) :
        call.trace[j].k = "fn" /\ call.trace[j].r = "mpu_reset_fifo"}

\* C27: mpu_set_dmp_state(1), when no bus transfer fails, clears the interrupt
\* enable register, takes the device out of bypass, writes the sample-rate
\* divider, clears the FIFO enable register, sets the DMP interrupt and resets
\* the FIFO once, in this order; bypass is then off and the DMP interrupt on
C27_DmpEnableSequence ==
    (InitCall /\ ~BusFault /\ DmpStateAt > 0)
       => /\ DmpStateWrite(1) = <<"wr", "INT_ENABLE", {}>>
          /\ DmpStateWrite(2) = <<"wr", "FIFO_EN", {}>>
          /\ DmpStateWrite(3) = <<"wr", "USER_CTRL", {"FIFO_EN_BIT", "I2C_MST_EN"}>>
          /\ DmpStateWrite(4) = <<"wr", "INT_PIN_CFG",
                                  {"LATCH_INT_EN", "INT_ANYRD_CLEAR", "ACTL_ACTIVE_LOW"}>>
          /\ DmpStateWrite(5)[2] = "SMPLRT_DIV"
          /\ call.trace[DmpStateAt + 5].n = (1000 \div call.arg.dmp_sample_rate) - 1
          /\ DmpStateWrite(6) = <<"wr", "FIFO_EN", {}>>
          /\ DmpStateWrite(7) = <<"wr", "INT_ENABLE", {"BIT_DMP_INT_EN"}>>
          /\ DmpStateWrite(8) = <<"wr", "FIFO_EN", {}>>
          /\ DmpStateWrite(9) = <<"fn", "mpu_reset_fifo", {}>>
          /\ Cardinality(DmpStateResets) = 1
          /\ call.ret = 0
          /\ bypass_en = 0
          /\ "BYPASS_EN" \notin regs["INT_PIN_CFG"].f
          /\ regs["INT_ENABLE"].f = {"BIT_DMP_INT_EN"}

\* a bring-up at 50 Hz went through mpu_set_dmp_state after the magnetometer
\* had been set up through the bypass
C27_DmpEnabledAfterBypass ==
    /\ InitCall /\ ~BusFault /\ DmpStateAt > 0
    /\ call.arg.enable_magnetometer = 1
    /\ call.arg.dmp_sample_rate = 50
    /\ CountEv(call.trace, "fn", "initialize_magnetometer") = 1
    /\ Cardinality(DmpStateResets) = 1
    /\ bypass_en = 0

(***************************************************************************)
(* Properties of the DMP memory functions, checked under SpecMem.  A call  *)
(* leaves in call.mem its operands and in call.in.fails the transfers the  *)
(* environment fails.                                                      *)
(***************************************************************************)
LoadCall == call.op = "dmp_load_motion_driver_firmware"

\* positions in the trace of the chunk writes and of the chunk reads
ChunkWrites == {j \in 1..Len(call.trace) :
                  call.trace[j].k = "wr" /\ call.trace[j].r = "MEM_R_W"}
ChunkReads == {j \in 1..Len(call.trace) :
                 call.trace[j].k = "rd" /\ call.trace[j].r = "MEM_R_W"}
StartWrites == {j \in 1..Len(call.trace) :
                  call.trace[j].k = "wr" /\ call.trace[j].r = "PRGM_START_H"}

\* offsets of the chunks written
WrittenChunks == {call.trace[j].v[1] : j \in ChunkWrites}

\* the first chunk that reads back wrong, 0 - 1 when none does
FirstCorrupt ==
    IF call.mem.corrupt = {} THEN 0 - 1
    ELSE CHOOSE c \in call.mem.corrupt : \A d \in call.mem.corrupt : c <= d

\* C13: a chunk is read back after it is written; the first chunk that reads
\* back wrong makes the upload return -2, which no transport error does, and
\* no later chunk is written; the program-start address is written only
\* after every chunk has been written and read back right
C13_UploadVerified ==
    LoadCall =>
       /\ \A j \in ChunkWrites :
             \/ j + 2 \in ChunkReads
             \/ call.ret = -1 /\ BusFault
       /\ (FirstCorrupt >= 0 /\ ~BusFault)
             => /\ call.ret = -2
                /\ WrittenChunks = {c \in ChunkOffsets : c <= FirstCorrupt}
                /\ StartWrites = {}
       /\ BusFault => call.ret = -1
       /\ StartWrites # {}
             => /\ call.mem.corrupt = {}
                /\ WrittenChunks = ChunkOffsets
                /\ Cardinality(ChunkReads) = Cardinality(ChunkWrites)
                /\ \A j \in ChunkWrites \cup ChunkReads : \A k \in StartWrites : j < k

\* the second chunk read back wrong: two chunks written, the third not
C13_SecondChunkCorrupt ==
    /\ LoadCall /\ call.ret = -2
    /\ call.mem.corrupt = {16, 32}
    /\ WrittenChunks = {0, 16}
    /\ StartWrites = {}


MemCall == call.op \in {"mpu_write_mem", "mpu_read_mem"}

\* C14: a chunk whose end lies beyond the bank is refused before any bus
\* transfer, by mpu_write_mem and by mpu_read_mem alike; a chunk that ends
\* exactly at the end of the bank is transferred
C14_BankBoundary ==
    MemCall =>
       /\ (call.mem.addr % 256) + call.mem.length > MPU6500_BANK_SIZE
             => call.ret = -1 /\ BusN(call.trace) = 0
       /\ ((call.mem.addr % 256) + call.mem.length <= MPU6500_BANK_SIZE /\ ~BusFault)
             => call.ret = 0 /\ BusN(call.trace) = 2

\* a chunk that crosses the bank was refused, and one ending on it was not
C14_CrossingRefused ==
    /\ call.op = "mpu_read_mem"
    /\ call.mem.addr = 496 /\ call.mem.length = 17
    /\ call.ret = -1 /\ BusN(call.trace) = 0


(***************************************************************************)
(* The sampler threads, checked under SpecShutdown                         *)
(***************************************************************************)
\* the sampler threads that have been created and have not returned
RunningSamplers == {t \in Threads : thr[t].pc \notin {"none", "done"}}

\* C15: whatever bring-ups and shutdowns have been called, at most one
\* sampler thread is running
C15_AtMostOneSampler == Cardinality(RunningSamplers) <= 1


(***************************************************************************)
(* The callback and the success flag, checked under SpecCallback           *)
(***************************************************************************)
\* the step of sampler t that ends an edge called the registered function
CallbackRan(t) == EdgeHandled(t) /\ call'.ret = 1

\* C16 as amended: an edge after the first invokes the callback while
\* interrupt_running is set, whether the decode of that edge succeeded or
\* failed, and not otherwise; when the callback runs the flag
\* was_last_read_successful returns is 1 exactly when the decode of that
\* edge returned 0
C16_CallbackSeesOwnResult ==
    [][\A t \in Threads :
          /\ (EdgeHandled(t) /\ thr[t].edges >= 2)
                => (call'.ret = 1 <=> interrupt_running # 0)
          /\ CallbackRan(t)
                => /\ thr[t].ret = 0 => last_read_successful' = 1
                   /\ thr[t].ret # 0 => last_read_successful' = 0]_vars

\* C16: every edge after the first invokes the callback, whether or not the
\* decode succeeded, and the callback sees the flag of that edge's decode
C16_CallbackAfterEveryDecode ==
    [][\A t \in Threads :
          (EdgeHandled(t) /\ thr[t].edges >= 2)
             => /\ call'.ret = 1
                /\ last_read_successful' = 1 <=> thr[t].ret = 0]_vars

\* the callback has run after a decode that failed, and the flag is 0
C16_CallbackAfterFailedDecode ==
    \E t \in Threads :
       /\ call.op = "sampler_finish" /\ call.t = t /\ call.ret = 1
       /\ thr[t].edges >= 2 /\ thr[t].ret # 0
       /\ last_read_successful = 0


(***************************************************************************)
(* Properties of the gyro calibration, checked under SpecGyro              *)
(***************************************************************************)
GyroCall == call.op = "calibrate_gyro_routine"

\* C17: a gyro calibration that finds the bus in use when it is entered, or
\* in which a bus transfer fails, returns -1 and leaves the calibration
\* file as it was
C17_FailureWritesNothing ==
    [][(GyroCall' /\ (in_use \/ BusFault'))
          => (call'.ret = -1 /\ store' = store)]_vars


\* the number of samples the routine read from the FIFO
GyroReads == CountEv(call.trace, "rd", "FIFO_R_W")

\* the sum of axis k (1, 2, 3) over the first n samples of the FIFO
RECURSIVE AxisSum(_, _, _)
AxisSum(fifo, n, k) ==
    IF n = 0 THEN 0
    ELSE AxisSum(fifo, n - 1, k)
         + (LET u == fifo[n][2 * k - 1] * 256 + fifo[n][2 * k]
            IN IF u >= 32768 THEN u - 65536 ELSE u)

\* the quotient of sum by n > 0, rounded toward zero
AxisMean(sum, n) == IF sum >= 0 THEN sum \div n ELSE 0 - ((0 - sum) \div n)

\* C18 as amended: a gyro calibration that succeeds having captured at least
\* one sample has read every sample the FIFO count announced, has written to
\* the calibration file the average of each axis over those samples, and has
\* written nothing to the bias registers
C18_SuccessPersistsAverage ==
    (GyroCall /\ call.ret = 0 /\ GyroReads >= 1) =>
       /\ GyroReads = (call.gyro.count[1] * 256 + call.gyro.count[2]) \div 6
       /\ store.gyro # <<>>
       /\ ScanGyroFile(store.gyro) =
                       <<AxisMean(AxisSum(call.gyro.fifo, GyroReads, 1), GyroReads),
                         AxisMean(AxisSum(call.gyro.fifo, GyroReads, 2), GyroReads),
                         AxisMean(AxisSum(call.gyro.fifo, GyroReads, 3), GyroReads)>>
       /\ call.trace[Len(call.trace)] = Ev("file", "written", {}, 0)
       /\ CountEv(call.trace, "wr", "XG_OFFSET_H") = 0

\* C18: a gyro calibration that succeeds has written the bias registers and
\* the calibration file
C18_SuccessWritesRegisters ==
    (GyroCall /\ call.ret = 0) =>
       /\ CountEv(call.trace, "wr", "XG_OFFSET_H") > 0
       /\ CountEv(call.trace, "file", "written") > 0

\* three samples averaged and persisted
C18_ThreeSamplesAveraged ==
    /\ GyroCall /\ call.ret = 0 /\ GyroReads = 3
    /\ store.gyro = <<<<"1", "0", "1">>, <<"-", "1", "0", "1">>, <<"8">>>>


(***************************************************************************)
(* Properties of the magnetometer calibration, checked under SpecMag       *)
(***************************************************************************)
MagCall == call.op = "calibrate_mag_routine"

\* the vectors the routine stored, and the positions of the fit in its trace
StoredVectors == {j \in 1..Len(call.trace) :
                    call.trace[j].k = "mag" /\ call.trace[j].r = "stored"}
FitCalls == {j \in 1..Len(call.trace) :
               call.trace[j].k = "fn" /\ call.trace[j].r = "fitEllipsoid"}
MagFileEvents == {j \in 1..Len(call.trace) : call.trace[j].k = "file"}

\* the collection of the call was cut short by the environment
CutShort ==
    /\ call.magcal.stop.kind \in {"err", "zero", "exiting"}
    /\ call.magcal.stop.at < 200

\* C19: the fit runs on exactly 200 vectors, all collected before it; a read
\* error, an all-zero reading or the state EXITING before the 200th vector
\* makes the routine return -1 without running the fit and without touching
\* the calibration file
C19_FitNeedsAllSamples ==
    [][MagCall' =>
          /\ \A f \in FitCalls' :
                /\ Cardinality(StoredVectors') = 200
                /\ \A j \in StoredVectors' : j < f
          /\ CutShort' => /\ call'.ret = -1
                          /\ Cardinality(StoredVectors') <= call'.magcal.stop.at
                          /\ state # "EXITING"
                                => Cardinality(StoredVectors') = call'.magcal.stop.at
                          /\ FitCalls' = {}
                          /\ MagFileEvents' = {}
                          /\ store' = store]_vars

\* the 200th reading was all zero: 199 vectors stored, failure
C19_LastReadingZero ==
    /\ MagCall /\ call.ret = -1
    /\ call.magcal.stop = [kind |-> "zero", at |-> 199]
    /\ Cardinality(StoredVectors) = 199
    /\ FitCalls = {}


\* the fit of the call returned an ellipsoid
FitReturned == FitCalls # {} /\ call.magcal.fit.ret >= 0

\* the fitted ellipsoid of the call is plausible: every center component
\* within 70 of zero, every axis length from 5 to 140
FitPlausible ==
    \A k \in 1..3 :
       /\ call.magcal.fit.center[k] <= 70 /\ call.magcal.fit.center[k] >= -70
       /\ call.magcal.fit.lengths[k] >= 5 /\ call.magcal.fit.lengths[k] <= 140

\* C20: the calibration file is written only when the fitted ellipsoid is
\* plausible; a center component beyond 70 or an axis length outside
\* [5, 140] makes the routine return -1 and leave the file as it was, and a
\* fit on the bounds is written
C20_ImplausibleFitRejected ==
    [][MagCall' =>
          /\ (MagFileEvents' # {} \/ store'.mag # store.mag)
                => FitReturned' /\ FitPlausible'
          /\ (FitReturned' /\ ~FitPlausible')
                => call'.ret = -1 /\ MagFileEvents' = {} /\ store' = store
          /\ (FitReturned' /\ FitPlausible' /\ call'.magcal.file = "ok")
                => /\ call'.ret = 0
                   /\ ScanMagFile(store'.mag).offsets =
                         [k \in 1..3 |-> call'.magcal.fit.center[k] * 1000000]]_vars

\* an axis length of 4 was rejected after a file had been written
C20_ShortAxisRejected ==
    /\ MagCall /\ call.ret = -1 /\ FitReturned
    /\ call.magcal.fit.lengths = <<70, 70, 4>>
    /\ store.mag # <<>>


(***************************************************************************)
(* The calibration a failed routine leaves behind                          *)
(***************************************************************************)
CalibrationCall == call.op \in {"calibrate_gyro_routine", "calibrate_mag_routine"}

\* C21: a calibration routine that returns -1 leaves the calibration files,
\* the magnetometer offsets and scales in memory and the gyro bias registers
\* as they were when it was called
C21_FailureKeepsCalibration ==
    [][(CalibrationCall' /\ call'.ret = -1)
          => /\ store' = store
             /\ mag_offsets' = mag_offsets
             /\ mag_scales' = mag_scales
             /\ regs'["XG_OFFSET_H"] = regs["XG_OFFSET_H"]]_vars

(***************************************************************************)
(* Properties of the calibration files, checked under SpecStore.           *)
(***************************************************************************)
\* x, in millionths, is within half a millionth of the fraction q
NearFrac(x, q) ==
    LET d == x * q.den - q.num * FLOAT_ONE
    IN 2 * (IF d < 0 THEN 0 - d ELSE d) <= q.den

\* C22: the three integers read from the gyro file are those last written to
\* it, and the calibration read from the magnetometer file is the one last
\* written to it, offsets x, y, z first and scales x, y, z after them, each
\* within half a millionth
C22_FilesRoundTrip ==
    [][/\ (call.op = "write_gyro_offets_to_disk" /\ call.ret = 0
              /\ call'.op = "load_gyro_offets")
          => call'.raw = call.raw
       /\ (call.op = "write_mag_cal_to_disk" /\ call.ret = 0
              /\ call'.op = "load_mag_calibration")
          => /\ call'.ret = 0
             /\ \A k \in 1..3 : /\ NearFrac(mag_offsets'[k], call.raw[1][k])
                                /\ NearFrac(mag_scales'[k], call.raw[2][k])]_vars

\* a magnetometer calibration with negative and fractional values was written
\* and read back
C22_FractionsReadBack ==
    /\ call.op = "load_mag_calibration"
    /\ call.ret = 0
    /\ mag_offsets = <<0 - 333333, 25625000, 0>>
    /\ mag_scales = <<2333333, 500000, 14000000>>
    /\ store.gyro # <<>>
    /\ ScanGyroFile(store.gyro) = <<-32768, 32767, 10>>

(***************************************************************************)
(* Properties of the orientation selector, checked under SpecOrient.       *)
(***************************************************************************)
\* C23: a bring-up whose orientation selector is none of the six returns
\* failure without a single access to the hardware
C23_BadOrientationRejected ==
    (InitCall /\ call.arg.orientation \notin Orientations)
       => /\ call.ret = -1
          /\ \A j \in 1..Len(call.trace) : ~IsHwEv(call.trace[j])

(***************************************************************************)
(* The order of the sampler's steps on an edge, checked under SpecCallback *)
(***************************************************************************)
\* the positions of the events of kind k and name r in the trace of the step
EvAt(k, r) == {j \in 1..Len(call.trace) : call.trace[j].k = k /\ call.trace[j].r = r}

\* every event of the first set comes before every event of the second
Before(A, C) == \A a \in A : \A c \in C : a < c

\* the step is the wake of a sampler by an edge
EdgeWake == call.op = "sampler_poll" /\ call.ret = 1

\* the step is the end of the handling of an edge
EdgeEnd == call.op = "sampler_finish"

\* the events of the user callback in the trace of the step
CallbackEvents == {j \in 1..Len(call.trace) : call.trace[j].k = "fn"}

\* C26 as amended: on an edge the sampler takes the timestamp, warns when the
\* bus is claimed and claims it all the same, runs the decoder, releases the
\* bus, records the result of the decoder, and only then calls the user
\* function
C26_EdgeOrder ==
    [][/\ EdgeWake'
          => /\ Cardinality(EvAt("clock", "timestamp")') = 1
             /\ Cardinality(EvAt("bus", "claim")') = 1
             /\ Before(EvAt("clock", "timestamp")', EvAt("bus", "claim")')
             /\ (EvAt("warn", "bus claimed")' # {}) <=> in_use
             /\ Before(EvAt("warn", "bus claimed")', EvAt("bus", "claim")')
             /\ in_use'
             /\ thr'[call'.t].pc = "decode"
       /\ call'.op = "read_dmp_fifo"
          => /\ thr[call'.t].pc = "decode"
             /\ thr'[call'.t].pc = "finish"
             /\ EvAt("bus", "claim")' = {} /\ EvAt("bus", "release")' = {}
       /\ EdgeEnd'
          => /\ thr[call'.t].pc = "finish"
             /\ Cardinality(EvAt("bus", "release")') = 1
             /\ Cardinality(EvAt("record", "last_read_successful")') = 1
             /\ Before(EvAt("bus", "release")', EvAt("record", "last_read_successful")')
             /\ Before(EvAt("record", "last_read_successful")', CallbackEvents')
             /\ ~in_use'
             /\ last_read_successful' = (IF thr[call'.t].ret = 0 THEN 1 ELSE 0)]_vars

\* C26: at the end of an edge the result of the decoder is recorded before the
\* bus is released, and the user function is called after the release
C26_RecordBeforeRelease ==
    EdgeEnd => /\ Before(EvAt("record", "last_read_successful"), EvAt("bus", "release"))
               /\ Before(EvAt("bus", "release"), CallbackEvents)

\* an edge was handled to its end with a failed decode, and the user function
\* was called after the release and the record
C26_CallbackAfterRelease ==
    /\ EdgeEnd /\ call.ret = 1
    /\ Len(call.trace) = 3
    /\ call.trace[1].r = "release"
    /\ call.trace[3].k = "fn"
    /\ last_read_successful = 0
    /\ ~in_use

(***************************************************************************)
(* Properties of the magnetometer set-up, checked under SpecMagInit.       *)
(***************************************************************************)
\* the registers and flags written by the bus writes of the step, in order
WritesOf(tr) ==
    LET W == {j \in 1..Len(tr) : tr[j].k = "wr"}
        RECURSIVE F(_)
        F(j) == IF j > Len(tr) THEN <<>>
                ELSE IF j \in W THEN <<<<tr[j].r, tr[j].f>>>> \o F(j + 1)
                ELSE F(j + 1)
    IN F(1)

BypassOnWrites ==
    <<<<"USER_CTRL", IF dmp_en # 0 THEN {"FIFO_EN_BIT"} ELSE {}>>,
      <<"INT_PIN_CFG", {"LATCH_INT_EN", "INT_ANYRD_CLEAR", "ACTL_ACTIVE_LOW", "BYPASS_EN"}>>>>

BypassOffWrites ==
    <<<<"USER_CTRL", (IF dmp_en # 0 THEN {"FIFO_EN_BIT"} ELSE {}) \cup {"I2C_MST_EN"}>>,
      <<"INT_PIN_CFG", {"LATCH_INT_EN", "INT_ANYRD_CLEAR", "ACTL_ACTIVE_LOW"}>>>>

ContinuousWrites ==
    <<<<"AK8963_CNTL", {"MAG_POWER_DN"}>>, <<"AK8963_CNTL", {"MAG_FUSE_ROM"}>>,
      <<"AK8963_CNTL", {"MAG_POWER_DN"}>>,
      <<"AK8963_CNTL", {"MSCALE_16", "MAG_CONT_MES_2"}>>>>

MagInitCall == call.op = "initialize_magnetometer"
MagDownCall == call.op = "power_down_magnetometer"

\* C28 as amended: initialize_magnetometer, when no transfer fails, puts the
\* device in bypass, reads the three sensitivity bytes between the fuse-ROM
\* and the power-down commands, sets continuous 16-bit sampling and returns
\* with the bypass still on; it takes the device out of bypass only when the
\* read of the sensitivity bytes fails.  power_down_magnetometer powers the
\* magnetometer down and returns with the bypass off.
C28_BypassLeftOnAfterSetup ==
    /\ (MagInitCall /\ ~BusFault)
          => /\ call.ret = 0
             /\ WritesOf(call.trace) = BypassOnWrites \o ContinuousWrites
             /\ CountEv(call.trace, "rd", "AK8963_ASAX") = 1
             /\ mag_factory_adjust = [k \in 1..3 |-> call.raw[k] + 128]
             /\ bypass_en = 1
             /\ "BYPASS_EN" \in regs["INT_PIN_CFG"].f
    /\ (MagInitCall /\ call.in.fails = {5})
          => /\ call.ret = -1
             /\ bypass_en = 0
             /\ "BYPASS_EN" \notin regs["INT_PIN_CFG"].f
    /\ (MagDownCall /\ ~BusFault)
          => /\ call.ret = 0
             /\ WritesOf(call.trace)
                   = BypassOnWrites \o <<<<"AK8963_CNTL", {"MAG_POWER_DN"}>>>>
                     \o BypassOffWrites
             /\ bypass_en = 0
             /\ "BYPASS_EN" \notin regs["INT_PIN_CFG"].f

\* C28: initialize_magnetometer and power_down_magnetometer, when no transfer
\* fails, both return with the bypass off
C28_BypassOffAfterSetup ==
    ((MagInitCall \/ MagDownCall) /\ ~BusFault)
       => /\ call.ret = 0
          /\ bypass_en = 0
          /\ "BYPASS_EN" \notin regs["INT_PIN_CFG"].f

\* the magnetometer was set up with the sensitivity bytes 0, 255, 128 and the
\* bypass is on
C28_SetupAfterPowerDown ==
    /\ MagInitCall /\ ~BusFault /\ call.ret = 0
    /\ call.raw = <<0, 255, 128>>
    /\ mag_factory_adjust = <<128, 383, 256>>
    /\ regs["AK8963_CNTL"].f = {"MSCALE_16", "MAG_CONT_MES_2"}
    /\ bypass_en = 1

(***************************************************************************)
(* The calibration the decoder applies, checked under SpecMagFile.         *)
(***************************************************************************)
\* the packet decoded by the step held a new magnetometer reading
MagDecoded ==
    /\ DecodeCall /\ call.ret = 0 /\ call.raw # <<>>
    /\ packet_len = FIFO_LEN_MAG
    /\ DecodeMag(data, mag_scales, call.raw, call.i).is_new_mag_data = 1

\* C29: the offsets and scales the decoder applies to a magnetometer reading
\* are those of the magnetometer calibration file when there is one, and 0
\* and 1.0 when there is none
C29_FileCalibrationApplied ==
    MagDecoded =>
       IF store.mag = <<>>
          THEN /\ mag_offsets = <<0, 0, 0>>
               /\ mag_scales = <<FLOAT_ONE, FLOAT_ONE, FLOAT_ONE>>
          ELSE /\ mag_offsets = ScanMagFile(store.mag).offsets
               /\ mag_scales = ScanMagFile(store.mag).scales

FusionDone == call.op = "data_fusion" /\ call.ret = 0

\* C33 as stated: after every fusion cycle that completes, at every accepted
\* sample rate and for every DMP yaw and compass yaw of [-PI, PI], the stored
\* yaw of the filter is in [0, 2 PI) and the fused yaw of the sample is in
\* (-PI, PI]
C33_LastYawBelowTwoPi ==
    FusionDone => /\ 0 <= fusion.lastYaw /\ fusion.lastYaw < TWO_PI
                  /\ 0 - PI < data.fused_TaitBryan[3]
                  /\ data.fused_TaitBryan[3] <= PI

\* C33 as amended: the stored yaw of the filter is in [0, 2 PI], the upper
\* end included (the wraps compare with > TWO_PI), and the fused yaw of the
\* sample is in (-PI, PI]
C33_YawRanges ==
    FusionDone => /\ config.dmp_sample_rate \in ValidRates
                  /\ 0 <= fusion.lastYaw /\ fusion.lastYaw <= TWO_PI
                  /\ 0 - PI < data.fused_TaitBryan[3]
                  /\ data.fused_TaitBryan[3] <= PI

\* the gyro step brought the yaw to exactly 2 PI and the compass, at 0, asked
\* for no correction: the filter keeps 2 PI and the sample reports 0
C33_LastYawAtTwoPi ==
    /\ FusionDone
    /\ call.in.magyaw = 0
    /\ fusion.lastYaw = TWO_PI
    /\ data.fused_TaitBryan[3] = 0


(***************************************************************************)
(* The gyro calibration with an empty capture window, under SpecGyro       *)
(***************************************************************************)
\* the routine read a FIFO count that holds no complete sample
EmptyCapture ==
    /\ GyroCall
    /\ CountEv(call.trace, "rd", "FIFO_COUNTH") = 1
    /\ call.gyro.count[1] * 256 + call.gyro.count[2] < 6

\* C34: a gyro calibration whose capture window holds no complete sample
\* (FIFO count below 6) returns -1, leaves the calibration file as it was and
\* does not divide by the sample count of zero
C34_EmptyCaptureFails ==
    [][EmptyCapture' => /\ call'.ret = -1
                        /\ store' = store
                        /\ CountEv(call'.trace, "trap", "SIGFPE") = 0]_vars


(***************************************************************************)
(* The callback stopped and registered again, under SpecStop               *)
(***************************************************************************)
\* the sampler t leaves the decoder
DecoderReturns(t) == thr[t].pc = "decode" /\ thr'[t].pc # "decode"

\* C35: while interrupt_running is 0, as stop_imu_interrupt_func leaves it
\* until set_imu_interrupt_func is called again, an edge still gets its
\* timestamp, the decoder still runs and its result is still recorded in
\* last_read_successful, but the end of the handling calls no user function;
\* set_imu_interrupt_func stores the new function and sets interrupt_running,
\* and from then on every edge but the first of a sampler ends with exactly
\* one call of that function
C35_StopThenSetAgain ==
    [][/\ call'.op = "stop_imu_interrupt_func" => interrupt_running' = 0
       /\ (interrupt_running = 0 /\ EdgeWake')
             => Cardinality(EvAt("clock", "timestamp")') = 1
       /\ \A t \in Threads :
            /\ (interrupt_running = 0 /\ DecoderReturns(t))
                  => /\ DecodeCall' /\ call'.t = t
                     /\ thr'[t].pc = "finish"
                     /\ thr'[t].ret = call'.ret
            /\ (interrupt_running = 0 /\ EdgeHandled(t))
                  => /\ CallbackEvents' = {}
                     /\ thr'[t].cbs = thr[t].cbs
                     /\ last_read_successful' = (IF thr[t].ret = 0 THEN 1 ELSE 0)
            /\ (interrupt_running = 1 /\ EdgeHandled(t) /\ thr[t].first_run = 0)
                  => /\ Cardinality(CallbackEvents') = 1
                     /\ \A j \in CallbackEvents' : call'.trace[j].r = imu_interrupt_func
                     /\ thr'[t].cbs = thr[t].cbs + 1
       /\ call'.op = "set_imu_interrupt_func"
             => /\ interrupt_running' = 1
                /\ imu_interrupt_func' = call'.raw[1]]_vars

\* a callback was registered and stopped, and a sampler ends the handling
\* of its second edge, decoded with success, without a call
C35_EdgeWhileStopped ==
    /\ EdgeEnd /\ call.ret = 0
    /\ interrupt_running = 0
    /\ imu_interrupt_func = "other"
    /\ thr[call.t].edges >= 2 /\ thr[call.t].cbs = 0
    /\ thr[call.t].ret = 0
    /\ last_read_successful = 1


(***************************************************************************)
(* The callback after power_off_imu, under SpecPowerOff                    *)
(***************************************************************************)
\* the last step was the end of edge n of sampler t, with a call of the user
\* function, and the shutdown flag is set
LateCallback(t, n) ==
    /\ shutdown_interrupt_thread = 1
    /\ EdgeEnd /\ call.t = t /\ call.ret = 1
    /\ thr[t].edges = n

\* C37: once power_off_imu has set the shutdown flag, and with no bring-up
\* after it, a sampler calls the user function at most once more: it calls it
\* only as it ends an edge, the test of the loop that follows ends the
\* thread, a thread that has returned does nothing more, a call of the
\* function made while the flag is set is the last of that sampler, and the
\* sampler terminates
C37_AtMostOneCallbackAfterPowerOff ==
    /\ [][shutdown_interrupt_thread = 1
             => /\ shutdown_interrupt_thread' = 1
                /\ \A t \in Threads :
                     /\ (call'.op = "sampler_finish" /\ call'.t = t /\ call'.ret = 1)
                           => EdgeHandled(t)
                     /\ (thr[t].pc = "loop" /\ thr'[t] # thr[t]) => thr'[t].pc = "done"
                     /\ thr[t].pc = "done" => thr'[t].pc = "done"
                     /\ thr'[t].pc # thr[t].pc => thr'[t].cbs <= 1]_vars
    /\ \A t \in Threads : \A n \in 1..MaxEdges :
         [](LateCallback(t, n)
               => []((EdgeEnd /\ call.t = t /\ call.ret = 1) => thr[t].edges = n))
    /\ \A t \in Threads :
         (shutdown_interrupt_thread = 1 /\ thr[t].pc \notin {"none", "done"})
            ~> (thr[t].pc = "done")

\* a sampler ends its second edge with a call of the user function after
\* power_off_imu had set the flag
C37_CalledAfterPowerOff ==
    \E t \in Threads :
       /\ LateCallback(t, 2)
       /\ thr[t].pc = "loop" /\ thr[t].cbs = 1
       /\ imu_interrupt_thread = t


(***************************************************************************)
(* The bus claim of the gyro calibration, under SpecGyro                   *)
(***************************************************************************)
\* C38: a gyro calibration that has claimed the bus returns, whatever the
\* return path, with the in-use flag of the bus cleared
C38_GyroClaimReleased ==
    (GyroCall /\ CountEv(call.trace, "bus", "claim") > 0) => ~in_use


(***************************************************************************)
(* Properties of the barometer, under SpecBaro                             *)
(***************************************************************************)
\* C36: initialize_barometer called with a selector that is none of the five
\* of the enumeration returns -1 without a transfer on the bus
C36_BadSelectorBeforeBus ==
    (call.op = "initialize_barometer" /\ call.raw[1] \notin BmpOversamples)
       => (call.ret = -1 /\ BusN(call.trace) = 0)

\* C39: every return of read_barometer after its claim leaves the in-use
\* flag cleared, and with the barometer the only user of the bus no
\* read_barometer finds the bus claimed
C39_ReadReleasesBus ==
    [][/\ (caller \in BaroPositions /\ caller' = "idle") => ~in_use'
       /\ (caller = "idle" /\ call'.op = "read_barometer") => ~in_use]_vars

(***************************************************************************)
(* The barometer and the sampler on the one bus, under SpecBus             *)
(***************************************************************************)
\* read_barometer has claimed the bus and not yet returned
BaroHolds == caller \in {"baro_status", "baro_data"}

\* a sampler has claimed the bus for an edge and not yet released it
SamplerHolds == \E t \in Threads : thr[t].pc \in {"decode", "finish"}

\* C40: read_barometer and the handling of an edge by a sampler are never
\* between claim and release at once, and the flag stays set for as long as
\* either is
C40_BusExclusive ==
    /\ ~(BaroHolds /\ SamplerHolds)
    /\ BaroHolds => in_use
    /\ SamplerHolds => in_use

====
